---------------------------- MODULE Spec2Model ----------------------------
(***************************************************************************)
(* A model of the external scanner of tree-sitter-fir (src/scanner.c).     *)
(*                                                                         *)
(* The scanner is a re-entrant procedure `scan` over a small state object  *)
(* (a frame stack, its depth, a counter of queued dedents and two flags).  *)
(* The host hands it a lexer (lookahead, advance, mark_end, get_column,    *)
(* eof) and a bitmap of the token kinds the parser accepts.  Here the      *)
(* lexer is an input (a sequence of code points) and a position, the       *)
(* bitmap is a set of token kinds, and `scan` is an operator that returns  *)
(* the call's result: whether it succeeded, the token kind, the position   *)
(* the host continues from, and the scanner state after the call.          *)
(***************************************************************************)
EXTENDS Integers, Sequences, FiniteSets, TLC

(***************************************************************************)
(* Code points.  Inputs are written as tuples of one-character strings and *)
(* translated to their ASCII codes, so that the character classes are the  *)
(* range comparisons of the source.  "BQ" stands for the back quote (96),  *)
(* which cannot be written in a string of this language.                   *)
(***************************************************************************)
Printable ==
    << " ", "!", "\"", "#", "$", "%", "&", "'", "(", ")", "*", "+", ",", "-",
       ".", "/", "0", "1", "2", "3", "4", "5", "6", "7", "8", "9", ":", ";",
       "<", "=", ">", "?", "@", "A", "B", "C", "D", "E", "F", "G", "H", "I",
       "J", "K", "L", "M", "N", "O", "P", "Q", "R", "S", "T", "U", "V", "W",
       "X", "Y", "Z", "[", "\\", "]", "^", "_", "BQ", "a", "b", "c", "d", "e",
       "f", "g", "h", "i", "j", "k", "l", "m", "n", "o", "p", "q", "r", "s",
       "t", "u", "v", "w", "x", "y", "z", "{", "|", "}", "~" >>

Code ==
    [ i \in 1..Len(Printable) |-> 31 + i ]

Ord ==
    [ s \in { Printable[i] : i \in 1..Len(Printable) } \cup { "\t", "\n", "\r" } |->
        IF s = "\t" THEN 9
        ELSE IF s = "\n" THEN 10
        ELSE IF s = "\r" THEN 13
        ELSE Code[CHOOSE i \in 1..Len(Printable) : Printable[i] = s] ]

C(s) == Ord[s]

Str(t) == [ i \in 1..Len(t) |-> Ord[t[i]] ]

Rep(c, n) == [ i \in 1..n |-> c ]

(***************************************************************************)
(* Token kinds (enum TokenType) and frame kinds (FrameKind).               *)
(***************************************************************************)
LayoutTokens == { "START_BLOCK", "END_BLOCK", "NEWLINE" }

ContentTokens ==
    { "UPPER_ID", "LOWER_ID", "LABEL", "INT_LITERAL", "CHAR_LITERAL",
      "BEGIN_STR", "END_STR", "STRING_CONTENT", "BEGIN_INTERPOLATION",
      "END_INTERPOLATION", "BLOCK_COMMENT", "LINE_COMMENT",
      "LPAREN", "RPAREN", "LBRACKET", "RBRACKET", "LBRACE", "RBRACE",
      "BACKSLASH_LPAREN",
      "COLON", "COMMA", "DOT", "DOTDOT", "EQ", "UNDERSCORE", "SLASH", "SEMICOLON",
      "PLUS", "MINUS", "STAR", "EQEQ", "NEQ", "LT", "GT", "LTEQ", "GTEQ",
      "LSHIFT", "RSHIFT", "AMP", "AMPAMP", "PIPE", "TILDE", "EXCLAMATION",
      "PERCENT", "CARET", "PLUSEQ", "MINUSEQ", "STAREQ", "CARETEQ",
      "KW_AND", "KW_AS", "KW_BREAK", "KW_CONTINUE", "KW_DO", "KW_ELIF", "KW_ELSE",
      "KW_FN", "KW_UPPER_FN", "KW_FOR", "KW_IF", "KW_IMPL", "KW_IMPORT", "KW_IN",
      "KW_IS", "KW_LET", "KW_LOOP", "KW_MATCH", "KW_NOT", "KW_OR", "KW_PRIM",
      "KW_RETURN", "KW_TRAIT", "KW_TYPE", "KW_VALUE", "KW_WHILE", "KW_ROW" }

TokenType == LayoutTokens \cup ContentTokens

\* scan_upper_id and scan_lower_id_or_keyword return TOKEN_COUNT for "no token".
TOKEN_COUNT == "TOKEN_COUNT"

FRAME_INDENTED == "INDENTED"
FRAME_PAREN == "PAREN"
FRAME_BRACKET == "BRACKET"
FRAME_INTERPOLATION == "INTERPOLATION"

FrameKind == { FRAME_INDENTED, FRAME_PAREN, FRAME_BRACKET, FRAME_INTERPOLATION }

MAX_DEPTH == 128

\* The width of the identifier buffers: char word[64], filled while len < 63.
WORD_MAX == 63

\* calloc leaves every slot zeroed: kind 0 is FRAME_INDENTED, block_col 0.
ZeroFrame == [ kind |-> FRAME_INDENTED, block_col |-> 0 ]

(***************************************************************************)
(* Character classes.                                                      *)
(***************************************************************************)
is_upper(c) == c >= C("A") /\ c <= C("Z")
is_lower(c) == c >= C("a") /\ c <= C("z")
is_digit(c) == c >= C("0") /\ c <= C("9")
is_alnum(c) == is_upper(c) \/ is_lower(c) \/ is_digit(c)
is_id_char(c) == is_alnum(c) \/ c = C("_")
is_hex(c) == is_digit(c) \/ (c >= C("a") /\ c <= C("f")) \/ (c >= C("A") /\ c <= C("F"))
is_bin(c) == c = C("0") \/ c = C("1")

IsNewline(c) == c = C("\n") \/ c = C("\r")
IsBlank(c) == c = C(" ") \/ c = C("\t")

(***************************************************************************)
(* The frame stack.  A scanner state is a record                           *)
(*   [stack, depth, pending_end_blocks, in_string, eof_newline_emitted]    *)
(* stack is the array Frame stack[MAX_DEPTH]: slots at and above depth     *)
(* keep whatever was last written to them.  The array is held as a         *)
(* function on 0..n-1, the slots written so far; the slots above are still *)
(* as calloc left them.                                                    *)
(***************************************************************************)
Slot(stack, i) == IF i \in DOMAIN stack THEN stack[i] ELSE ZeroFrame

\* The slots written so far are 0..Written(stack)-1.
Written(stack) == Cardinality(DOMAIN stack)

WriteSlot(stack, i, f) ==
    [ j \in 0..(IF i < Written(stack) THEN Written(stack) - 1 ELSE i) |->
        IF j = i THEN f ELSE Slot(stack, j) ]

top_frame(s) == Slot(s.stack, s.depth - 1)

\* push_frame without its test of depth.
push_frame_unguarded(s, kind, col) ==
    [ s EXCEPT !.stack = WriteSlot(s.stack, s.depth, [ kind |-> kind, block_col |-> col ]),
               !.depth = s.depth + 1 ]

\* push_frame that leaves the kind of the slot at its zero value.
push_frame_kind_unset(s, kind, col) ==
    IF s.depth < MAX_DEPTH
    THEN [ s EXCEPT !.stack = WriteSlot(s.stack, s.depth,
                                        [ kind |-> FRAME_INDENTED, block_col |-> col ]),
                    !.depth = s.depth + 1 ]
    ELSE s

push_frame(s, kind, col) ==
    IF s.depth < MAX_DEPTH
    THEN [ s EXCEPT !.stack = WriteSlot(s.stack, s.depth, [ kind |-> kind, block_col |-> col ]),
                    !.depth = s.depth + 1 ]
    ELSE s

\* pop_frame without its test of depth.
pop_frame_unguarded(s) == [ s EXCEPT !.depth = s.depth - 1 ]

pop_frame(s) ==
    IF s.depth > 1 THEN [ s EXCEPT !.depth = s.depth - 1 ] ELSE s

in_non_indented(s) == top_frame(s).kind # FRAME_INDENTED

\* The largest member of a non-empty set of integers.
Max(S) == CHOOSE x \in S : \A y \in S : y <= x

\* The loop counts down from depth-1 to 0 and stops at the first frame that
\* is not INDENTED: it counts the frames above the highest such frame.
indented_frames_above_delimiter(s) ==
    LET others == { i \in 0..(s.depth - 1) : Slot(s.stack, i).kind # FRAME_INDENTED }
    IN  IF others = {} THEN s.depth ELSE (s.depth - 1) - Max(others)

(***************************************************************************)
(* The lexer: inp is the input, p the index (from 1) of the lookahead.     *)
(* At the end of the input the lookahead is 0 and eof is true.             *)
(***************************************************************************)
lookahead(inp, p) == IF p > Len(inp) THEN 0 ELSE inp[p]

eof(inp, p) == p > Len(inp)

\* get_column: how many code points lie between the start of the line and p.
get_column(inp, p) ==
    LET breaks == { j \in 1..(p - 1) : inp[j] = C("\n") }
    IN  IF breaks = {} THEN p - 1 ELSE (p - 1) - Max(breaks)

\* (uint16_t)col
U16(n) == n % 65536

\* while (lookahead is in class) skip(): the first position from p on whose
\* character is not in the class (the lookahead 0 of the end is in none).
SkipWhile(class, inp, p) ==
    IF p > Len(inp) THEN p
    ELSE CHOOSE q \in p..(Len(inp) + 1) :
             /\ lookahead(inp, q) \notin class
             /\ \A j \in p..(q - 1) : lookahead(inp, j) \in class

skip_horizontal_ws(inp, p) == SkipWhile({ C(" "), C("\t") }, inp, p)

skip_all_ws(inp, p) == SkipWhile({ C(" "), C("\t"), C("\n"), C("\r") }, inp, p)

RECURSIVE skip_blank_lines(_, _)
skip_blank_lines(inp, p) ==
    IF IsNewline(lookahead(inp, p)) THEN skip_blank_lines(inp, p + 1)
    ELSE IF IsBlank(lookahead(inp, p))
         THEN LET q == skip_horizontal_ws(inp, p)
              IN  IF IsNewline(lookahead(inp, q)) THEN skip_blank_lines(inp, q) ELSE q
         ELSE p

\* The loops of scan that cross newlines: skip one newline, then the blanks
\* after it, as long as the lookahead is a newline.
RECURSIVE SkipNewlines(_, _)
SkipNewlines(inp, p) ==
    IF IsNewline(lookahead(inp, p))
    THEN SkipNewlines(inp, skip_horizontal_ws(inp, p + 1))
    ELSE p

(***************************************************************************)
(* Keywords.                                                               *)
(***************************************************************************)
keywords ==
    { [ text |-> Str(<<"a","n","d">>), token |-> "KW_AND" ],
      [ text |-> Str(<<"a","s">>), token |-> "KW_AS" ],
      [ text |-> Str(<<"b","r","e","a","k">>), token |-> "KW_BREAK" ],
      [ text |-> Str(<<"c","o","n","t","i","n","u","e">>), token |-> "KW_CONTINUE" ],
      [ text |-> Str(<<"d","o">>), token |-> "KW_DO" ],
      [ text |-> Str(<<"e","l","i","f">>), token |-> "KW_ELIF" ],
      [ text |-> Str(<<"e","l","s","e">>), token |-> "KW_ELSE" ],
      [ text |-> Str(<<"f","n">>), token |-> "KW_FN" ],
      [ text |-> Str(<<"f","o","r">>), token |-> "KW_FOR" ],
      [ text |-> Str(<<"i","f">>), token |-> "KW_IF" ],
      [ text |-> Str(<<"i","m","p","l">>), token |-> "KW_IMPL" ],
      [ text |-> Str(<<"i","m","p","o","r","t">>), token |-> "KW_IMPORT" ],
      [ text |-> Str(<<"i","n">>), token |-> "KW_IN" ],
      [ text |-> Str(<<"i","s">>), token |-> "KW_IS" ],
      [ text |-> Str(<<"l","e","t">>), token |-> "KW_LET" ],
      [ text |-> Str(<<"l","o","o","p">>), token |-> "KW_LOOP" ],
      [ text |-> Str(<<"m","a","t","c","h">>), token |-> "KW_MATCH" ],
      [ text |-> Str(<<"n","o","t">>), token |-> "KW_NOT" ],
      [ text |-> Str(<<"o","r">>), token |-> "KW_OR" ],
      [ text |-> Str(<<"p","r","i","m">>), token |-> "KW_PRIM" ],
      [ text |-> Str(<<"r","e","t","u","r","n">>), token |-> "KW_RETURN" ],
      [ text |-> Str(<<"r","o","w">>), token |-> "KW_ROW" ],
      [ text |-> Str(<<"t","r","a","i","t">>), token |-> "KW_TRAIT" ],
      [ text |-> Str(<<"t","y","p","e">>), token |-> "KW_TYPE" ],
      [ text |-> Str(<<"v","a","l","u","e">>), token |-> "KW_VALUE" ],
      [ text |-> Str(<<"w","h","i","l","e">>), token |-> "KW_WHILE" ] }

\* A lookup that finds no keyword.
lookup_keyword_none(word) == "LOWER_ID"

\* No two entries of the table share a text, so the first match is the only one.
lookup_keyword(word) ==
    IF \E kw \in keywords : kw.text = word
    THEN (CHOOSE kw \in keywords : kw.text = word).token
    ELSE "LOWER_ID"

(***************************************************************************)
(* The token scanners.  Each returns the position it stopped at.           *)
(***************************************************************************)
\* while (lookahead == '_' && len < 63) word[len++] = advance()
RECURSIVE TakeUnderscores(_, _, _)
TakeUnderscores(inp, p, len) ==
    IF lookahead(inp, p) = C("_") /\ len < WORD_MAX
    THEN TakeUnderscores(inp, p + 1, len + 1)
    ELSE p

\* while (is_id_char(lookahead) && len < 63) word[len++] = advance()
RECURSIVE TakeIdChars(_, _, _)
TakeIdChars(inp, p, len) ==
    IF is_id_char(lookahead(inp, p)) /\ len < WORD_MAX
    THEN TakeIdChars(inp, p + 1, len + 1)
    ELSE p

\* while (is_id_char(lookahead)) advance()
RECURSIVE TakeAllIdChars(_, _)
TakeAllIdChars(inp, p) ==
    IF is_id_char(lookahead(inp, p)) THEN TakeAllIdChars(inp, p + 1) ELSE p

\* while (lookahead == '_') advance()
RECURSIVE TakeAllUnderscores(_, _)
TakeAllUnderscores(inp, p) ==
    IF lookahead(inp, p) = C("_") THEN TakeAllUnderscores(inp, p + 1) ELSE p

\* The characters the lexer advanced over, from p up to q.
Word(inp, p, q) == [ i \in 1..(q - p) |-> inp[p + i - 1] ]

\* [tt, pos]: the token kind (or TOKEN_COUNT) and where the lexer stands;
\* the token's end is marked there.
scan_upper_id(inp, p, valid) ==
    LET q1 == TakeUnderscores(inp, p, 0)
    IN  IF ~is_upper(lookahead(inp, q1))
        THEN [ tt |-> TOKEN_COUNT, pos |-> q1 ]
        ELSE LET q2 == TakeIdChars(inp, q1 + 1, (q1 - p) + 1)
                 word == Word(inp, p, q2)
             IN  IF Len(word) = 2 /\ word[1] = C("F") /\ word[2] = C("n")
                    /\ "KW_UPPER_FN" \in valid
                 THEN [ tt |-> "KW_UPPER_FN", pos |-> q2 ]
                 ELSE [ tt |-> "UPPER_ID", pos |-> q2 ]

scan_lower_id_or_keyword(inp, p, valid) ==
    LET q1 == TakeUnderscores(inp, p, 0)
    IN  IF ~is_lower(lookahead(inp, q1))
        THEN [ tt |-> TOKEN_COUNT, pos |-> q1 ]
        ELSE LET q2 == TakeIdChars(inp, q1 + 1, (q1 - p) + 1)
                 kw == lookup_keyword(Word(inp, p, q2))
             IN  IF kw # "LOWER_ID" /\ kw \in valid
                 THEN [ tt |-> kw, pos |-> q2 ]
                 ELSE [ tt |-> "LOWER_ID", pos |-> q2 ]

RECURSIVE TakeWhileHex(_, _)
TakeWhileHex(inp, p) ==
    IF is_hex(lookahead(inp, p)) \/ lookahead(inp, p) = C("_")
    THEN TakeWhileHex(inp, p + 1) ELSE p

RECURSIVE TakeWhileBin(_, _)
TakeWhileBin(inp, p) ==
    IF is_bin(lookahead(inp, p)) \/ lookahead(inp, p) = C("_")
    THEN TakeWhileBin(inp, p + 1) ELSE p

RECURSIVE TakeWhileDec(_, _)
TakeWhileDec(inp, p) ==
    IF is_digit(lookahead(inp, p)) \/ lookahead(inp, p) = C("_")
    THEN TakeWhileDec(inp, p + 1) ELSE p

\* [ok, pos]
scan_int_literal(inp, p) ==
    IF ~is_digit(lookahead(inp, p)) THEN [ ok |-> FALSE, pos |-> p ]
    ELSE IF lookahead(inp, p) = C("0")
    THEN LET c1 == lookahead(inp, p + 1)
         IN  IF c1 = C("x") \/ c1 = C("X")
             THEN IF ~is_hex(lookahead(inp, p + 2)) /\ lookahead(inp, p + 2) # C("_")
                  THEN [ ok |-> FALSE, pos |-> p + 2 ]
                  ELSE [ ok |-> TRUE, pos |-> TakeWhileHex(inp, p + 2) ]
             ELSE IF c1 = C("b") \/ c1 = C("B")
             THEN IF ~is_bin(lookahead(inp, p + 2)) /\ lookahead(inp, p + 2) # C("_")
                  THEN [ ok |-> FALSE, pos |-> p + 2 ]
                  ELSE [ ok |-> TRUE, pos |-> TakeWhileBin(inp, p + 2) ]
             ELSE [ ok |-> TRUE, pos |-> TakeWhileDec(inp, p + 1) ]
    ELSE [ ok |-> TRUE, pos |-> TakeWhileDec(inp, p) ]

\* advance at the end of the input leaves the lexer where it is.
Adv(inp, p) == IF p > Len(inp) THEN p ELSE p + 1

\* A run of string content in which a backslash escapes nothing.
RECURSIVE StringRun_unescaped(_, _, _)
StringRun_unescaped(inp, p, has_content) ==
    LET c == lookahead(inp, p)
    IN  IF c = C("\"") \/ c = C("BQ") \/ c = 0
        THEN [ ok |-> has_content, pos |-> p ]
        ELSE StringRun_unescaped(inp, p + 1, TRUE)

\* [ok, pos]: has_content and where the run stopped.
RECURSIVE StringRun(_, _, _)
StringRun(inp, p, has_content) ==
    LET c == lookahead(inp, p)
    IN  IF c = C("\"") \/ c = C("BQ") \/ c = 0
        THEN [ ok |-> has_content, pos |-> p ]
        ELSE IF c = C("\\")
        THEN LET c1 == lookahead(inp, p + 1)
             IN  IF c1 = C("\n") THEN StringRun(inp, skip_all_ws(inp, p + 2), TRUE)
                 ELSE IF c1 # 0 THEN StringRun(inp, p + 2, TRUE)
                 ELSE StringRun(inp, p + 1, TRUE)
        ELSE StringRun(inp, p + 1, TRUE)

scan_string_content(inp, p) == StringRun(inp, p, FALSE)

(***************************************************************************)
(* The result of one call of scan.  A call that returns true leaves the    *)
(* lexer at the marked end of the token (the place it stopped, when the    *)
(* path marks no end before); a call that returns false consumes nothing.  *)
(* rule names the return statement taken.                                  *)
(***************************************************************************)
Emit(s, sym, endp, rule) ==
    [ ok |-> TRUE, sym |-> sym, pos |-> endp, sc |-> s, rule |-> rule ]

\* A false return that forgets the dedents still queued.
Fail_queue_dropped(s, p0, rule) ==
    [ ok |-> FALSE, sym |-> "NONE", pos |-> p0,
      sc |-> [ s EXCEPT !.pending_end_blocks = 0 ], rule |-> rule ]

Fail(s, p0, rule) ==
    [ ok |-> FALSE, sym |-> "NONE", pos |-> p0, sc |-> s, rule |-> rule ]

\* The end-of-input rule with a NEWLINE that does not set eof_newline_emitted.
EofRule_without_latch(s, p0, p, valid) ==
    IF "NEWLINE" \in valid /\ ~s.eof_newline_emitted
    THEN Emit(s, "NEWLINE", p, "eof_newline")
    ELSE IF "END_BLOCK" \in valid /\ top_frame(s).kind = FRAME_INDENTED /\ s.depth > 1
    THEN Emit(pop_frame(s), "END_BLOCK", p, "eof_end_block")
    ELSE Fail(s, p0, "eof")

\* The end-of-input rule without the test of depth before END_BLOCK.
EofRule_any_depth(s, p0, p, valid) ==
    IF "NEWLINE" \in valid /\ ~s.eof_newline_emitted
    THEN Emit([ s EXCEPT !.eof_newline_emitted = TRUE ], "NEWLINE", p, "eof_newline")
    ELSE IF "END_BLOCK" \in valid /\ top_frame(s).kind = FRAME_INDENTED
    THEN Emit(pop_frame(s), "END_BLOCK", p, "eof_end_block")
    ELSE Fail(s, p0, "eof")

\* The end-of-input rule, the same in the layout section and in section 4.
EofRule(s, p0, p, valid) ==
    IF "NEWLINE" \in valid /\ ~s.eof_newline_emitted
    THEN Emit([ s EXCEPT !.eof_newline_emitted = TRUE ], "NEWLINE", p, "eof_newline")
    ELSE IF "END_BLOCK" \in valid /\ top_frame(s).kind = FRAME_INDENTED /\ s.depth > 1
    THEN Emit(pop_frame(s), "END_BLOCK", p, "eof_end_block")
    ELSE Fail(s, p0, "eof")

\* The body of a block comment that does not nest: "#|" inside it counts for nothing.
RECURSIVE BlockCommentEnd_flat(_, _, _)
BlockCommentEnd_flat(inp, p, depth) ==
    IF ~(depth > 0 /\ lookahead(inp, p) # 0) THEN p
    ELSE IF lookahead(inp, p) = C("|")
    THEN IF lookahead(inp, p + 1) = C("#")
         THEN BlockCommentEnd_flat(inp, p + 2, depth - 1)
         ELSE BlockCommentEnd_flat(inp, p + 1, depth)
    ELSE BlockCommentEnd_flat(inp, p + 1, depth)

\* The body of a block comment, entered after "#|" with depth 1.
RECURSIVE BlockCommentEnd(_, _, _)
BlockCommentEnd(inp, p, depth) ==
    IF ~(depth > 0 /\ lookahead(inp, p) # 0) THEN p
    ELSE IF lookahead(inp, p) = C("#")
    THEN IF lookahead(inp, p + 1) = C("|")
         THEN BlockCommentEnd(inp, p + 2, depth + 1)
         ELSE BlockCommentEnd(inp, p + 1, depth)
    ELSE IF lookahead(inp, p) = C("|")
    THEN IF lookahead(inp, p + 1) = C("#")
         THEN BlockCommentEnd(inp, p + 2, depth - 1)
         ELSE BlockCommentEnd(inp, p + 1, depth)
    ELSE BlockCommentEnd(inp, p + 1, depth)

RECURSIVE LineCommentEnd(_, _)
LineCommentEnd(inp, p) ==
    IF lookahead(inp, p) # C("\n") /\ lookahead(inp, p) # 0
    THEN LineCommentEnd(inp, p + 1)
    ELSE p

ScanComment(s, inp, p0, p, valid) ==
    IF lookahead(inp, p + 1) = C("|")
    THEN IF "BLOCK_COMMENT" \in valid
         THEN Emit(s, "BLOCK_COMMENT", BlockCommentEnd(inp, p + 2, 1), "block_comment")
         ELSE Fail(s, p0, "block_comment")
    ELSE IF "LINE_COMMENT" \in valid
         THEN Emit(s, "LINE_COMMENT", LineCommentEnd(inp, p + 1), "line_comment")
         ELSE Fail(s, p0, "line_comment")

\* A label that takes the quote after it.
ScanQuote_quote_taken(s, inp, p0, p, valid) ==
    LET q == p + 1
        e == TakeIdChars(inp, q + 1, 1)
    IN  IF is_lower(lookahead(inp, q)) /\ "LABEL" \in valid
        THEN Emit(s, "LABEL", IF lookahead(inp, e) = C("'") THEN e + 1 ELSE e, "label")
        ELSE Fail(s, p0, "quote")

\* A single quote: a label or a character literal.
ScanQuote(s, inp, p0, p, valid) ==
    LET q == p + 1
    IN  IF is_lower(lookahead(inp, q)) /\ "LABEL" \in valid
        THEN LET e == TakeIdChars(inp, q + 1, 1)
             IN  IF lookahead(inp, e) = C("'") /\ e - q = 1 /\ "CHAR_LITERAL" \in valid
                 THEN Emit(s, "CHAR_LITERAL", e + 1, "char_in_label")
                 ELSE Emit(s, "LABEL", e, "label")
        ELSE IF "CHAR_LITERAL" \in valid
        THEN LET e == IF lookahead(inp, q) = C("\\") THEN Adv(inp, q + 1)
                      ELSE IF lookahead(inp, q) # C("'") /\ lookahead(inp, q) # 0
                           THEN q + 1
                           ELSE q
             IN  IF lookahead(inp, e) = C("'")
                 THEN Emit(s, "CHAR_LITERAL", e + 1, "char")
                 ELSE Fail(s, p0, "char")
        ELSE Fail(s, p0, "quote")

\* An underscore: the end of the token is first marked after it.
ScanUnderscore(s, inp, p0, p, valid) ==
    LET mark == p + 1
        q == TakeAllUnderscores(inp, p + 1)
    IN  IF is_upper(lookahead(inp, q))
        THEN Emit(s, "UPPER_ID", TakeAllIdChars(inp, q + 1), "underscore_upper")
        ELSE IF is_lower(lookahead(inp, q))
        THEN Emit(s, "LOWER_ID", TakeAllIdChars(inp, q + 1), "underscore_lower")
        ELSE IF "UNDERSCORE" \in valid
        THEN Emit(s, "UNDERSCORE", mark, "underscore")
        ELSE Fail(s, p0, "underscore")

\* An operator of one character that a second character may extend.
Op2(s, inp, p0, p, valid, c2, two, one) ==
    IF lookahead(inp, p + 1) = c2 /\ two \in valid
    THEN Emit(s, two, p + 2, "operator")
    ELSE IF one \in valid
    THEN Emit(s, one, p + 1, "operator")
    ELSE Fail(s, p0, "operator")

Op3(s, inp, p0, p, valid, c2, two, c3, three, one) ==
    IF lookahead(inp, p + 1) = c2 /\ two \in valid
    THEN Emit(s, two, p + 2, "operator")
    ELSE IF lookahead(inp, p + 1) = c3 /\ three \in valid
    THEN Emit(s, three, p + 2, "operator")
    ELSE IF one \in valid
    THEN Emit(s, one, p + 1, "operator")
    ELSE Fail(s, p0, "operator")

Op1(valid, c, ch, tok) ==
    c = C(ch) /\ tok \in valid

ScanOperator(s, inp, p0, p, valid) ==
    LET c == lookahead(inp, p)
    IN  IF c = C("=") THEN Op2(s, inp, p0, p, valid, C("="), "EQEQ", "EQ")
        ELSE IF c = C("!") THEN Op2(s, inp, p0, p, valid, C("="), "NEQ", "EXCLAMATION")
        ELSE IF c = C("<")
        THEN Op3(s, inp, p0, p, valid, C("<"), "LSHIFT", C("="), "LTEQ", "LT")
        ELSE IF c = C(">")
        THEN Op3(s, inp, p0, p, valid, C(">"), "RSHIFT", C("="), "GTEQ", "GT")
        ELSE IF c = C("+") THEN Op2(s, inp, p0, p, valid, C("="), "PLUSEQ", "PLUS")
        ELSE IF c = C("-") THEN Op2(s, inp, p0, p, valid, C("="), "MINUSEQ", "MINUS")
        ELSE IF c = C("*") THEN Op2(s, inp, p0, p, valid, C("="), "STAREQ", "STAR")
        ELSE IF c = C("^") THEN Op2(s, inp, p0, p, valid, C("="), "CARETEQ", "CARET")
        ELSE IF c = C("&") THEN Op2(s, inp, p0, p, valid, C("&"), "AMPAMP", "AMP")
        ELSE IF c = C(".") THEN Op2(s, inp, p0, p, valid, C("."), "DOTDOT", "DOT")
        ELSE IF Op1(valid, c, "|", "PIPE") THEN Emit(s, "PIPE", p + 1, "punct")
        ELSE IF Op1(valid, c, "~", "TILDE") THEN Emit(s, "TILDE", p + 1, "punct")
        ELSE IF Op1(valid, c, "/", "SLASH") THEN Emit(s, "SLASH", p + 1, "punct")
        ELSE IF Op1(valid, c, "%", "PERCENT")
        THEN Emit(s, "PERCENT", p + 1, "punct")
        ELSE IF Op1(valid, c, ":", "COLON") THEN Emit(s, "COLON", p + 1, "punct")
        ELSE IF Op1(valid, c, ",", "COMMA") THEN Emit(s, "COMMA", p + 1, "punct")
        ELSE IF Op1(valid, c, ";", "SEMICOLON")
        THEN Emit(s, "SEMICOLON", p + 1, "punct")
        ELSE Fail(s, p0, "no_token")

(***************************************************************************)
(* Section 4 of scan: the concrete token at position p (p0 is where the    *)
(* call started, before any white space was skipped).                      *)
(***************************************************************************)
ScanToken(s, inp, p0, p, valid) ==
    LET c == lookahead(inp, p)
    IN  IF eof(inp, p) THEN EofRule(s, p0, p, valid)
        ELSE IF c = C("#") THEN ScanComment(s, inp, p0, p, valid)
        ELSE IF c = C("\"") /\ "BEGIN_STR" \in valid
        THEN Emit([ s EXCEPT !.in_string = TRUE ], "BEGIN_STR", p + 1, "begin_str")
        ELSE IF c = C("BQ") /\ "END_INTERPOLATION" \in valid
        THEN Emit([ (IF top_frame(s).kind = FRAME_INTERPOLATION THEN pop_frame(s) ELSE s)
                      EXCEPT !.in_string = TRUE ],
                  "END_INTERPOLATION", p + 1, "end_interpolation")
        ELSE IF c = C("\\")
        THEN IF lookahead(inp, p + 1) = C("(") /\ "BACKSLASH_LPAREN" \in valid
             THEN Emit(push_frame(s, FRAME_PAREN, 0), "BACKSLASH_LPAREN", p + 2,
                       "backslash_lparen")
             ELSE Fail(s, p0, "backslash")
        ELSE IF c = C("(") /\ "LPAREN" \in valid
        THEN Emit(push_frame(s, FRAME_PAREN, 0), "LPAREN", p + 1, "lparen")
        ELSE IF c = C(")") /\ "RPAREN" \in valid
        THEN Emit(IF top_frame(s).kind = FRAME_PAREN THEN pop_frame(s) ELSE s,
                  "RPAREN", p + 1, "rparen")
        ELSE IF c = C("[") /\ "LBRACKET" \in valid
        THEN Emit(push_frame(s, FRAME_BRACKET, 0), "LBRACKET", p + 1, "lbracket")
        ELSE IF c = C("]") /\ "RBRACKET" \in valid
        THEN Emit(IF top_frame(s).kind = FRAME_BRACKET THEN pop_frame(s) ELSE s,
                  "RBRACKET", p + 1, "rbracket")
        ELSE IF c = C("{") /\ "LBRACE" \in valid
        THEN Emit(push_frame(s, FRAME_INDENTED, 0), "LBRACE", p + 1, "lbrace")
        ELSE IF c = C("}") /\ "RBRACE" \in valid
        THEN Emit(IF top_frame(s).kind = FRAME_INDENTED /\ s.depth > 1
                  THEN pop_frame(s) ELSE s,
                  "RBRACE", p + 1, "rbrace")
        ELSE IF c = C("'") THEN ScanQuote(s, inp, p0, p, valid)
        ELSE IF c = C("_") THEN ScanUnderscore(s, inp, p0, p, valid)
        ELSE IF is_upper(c)
        THEN LET r == scan_upper_id(inp, p, valid)
             IN  IF r.tt # TOKEN_COUNT /\ r.tt \in valid
                 THEN Emit(s, r.tt, r.pos, "upper_id")
                 ELSE Fail(s, p0, "upper_id")
        ELSE IF is_lower(c)
        THEN LET r == scan_lower_id_or_keyword(inp, p, valid)
             IN  IF r.tt # TOKEN_COUNT /\ r.tt \in valid
                 THEN Emit(s, r.tt, r.pos, "lower_id")
                 ELSE Fail(s, p0, "lower_id")
        ELSE IF is_digit(c) /\ "INT_LITERAL" \in valid
        THEN LET r == scan_int_literal(inp, p)
             IN  IF r.ok THEN Emit(s, "INT_LITERAL", r.pos, "int")
                 ELSE Fail(s, p0, "int")
        ELSE ScanOperator(s, inp, p0, p, valid)

(***************************************************************************)
(* Section 2 of scan: string mode.                                         *)
(***************************************************************************)
\* String mode with a BEGIN_INTERPOLATION that pushes its frame and leaves
\* in_string set.
ScanString_in_string_kept(s, inp, p, valid) ==
    LET c == lookahead(inp, p)
    IN  IF "STRING_CONTENT" \in valid /\ c # C("\"") /\ c # C("BQ") /\ c # 0
        THEN LET r == scan_string_content(inp, p)
             IN  IF r.ok THEN Emit(s, "STRING_CONTENT", r.pos, "string_content")
                 ELSE Fail(s, p, "string_content")
        ELSE IF "END_STR" \in valid /\ c = C("\"")
        THEN Emit([ s EXCEPT !.in_string = FALSE ], "END_STR", p + 1, "end_str")
        ELSE IF "BEGIN_INTERPOLATION" \in valid /\ c = C("BQ")
        THEN Emit(push_frame(s, FRAME_INTERPOLATION, 0),
                  "BEGIN_INTERPOLATION", p + 1, "begin_interpolation")
        ELSE Fail(s, p, IF eof(inp, p) THEN "string_eof" ELSE "string")

ScanString(s, inp, p, valid) ==
    LET c == lookahead(inp, p)
    IN  IF "STRING_CONTENT" \in valid /\ c # C("\"") /\ c # C("BQ") /\ c # 0
        THEN LET r == scan_string_content(inp, p)
             IN  IF r.ok THEN Emit(s, "STRING_CONTENT", r.pos, "string_content")
                 ELSE Fail(s, p, "string_content")
        ELSE IF "END_STR" \in valid /\ c = C("\"")
        THEN Emit([ s EXCEPT !.in_string = FALSE ], "END_STR", p + 1, "end_str")
        ELSE IF "BEGIN_INTERPOLATION" \in valid /\ c = C("BQ")
        THEN Emit(push_frame([ s EXCEPT !.in_string = FALSE ], FRAME_INTERPOLATION, 0),
                  "BEGIN_INTERPOLATION", p + 1, "begin_interpolation")
        ELSE Fail(s, p, IF eof(inp, p) THEN "string_eof" ELSE "string")

(***************************************************************************)
(* Section 3 of scan: white space and layout.  Either the call returns     *)
(* there (Done), or it falls through to section 4 at the position reached  *)
(* (Through); the scanner state is only changed on the returns.            *)
(***************************************************************************)
Done(r) == [ done |-> TRUE, res |-> r ]

Through(p) == [ done |-> FALSE, pos |-> p ]

StartBlock(s, inp, p, rule) ==
    Emit(push_frame(s, FRAME_INDENTED, U16(get_column(inp, p))), "START_BLOCK", p, rule)

\* The layout inside delimiters with NEWLINE emitted unasked.
LayoutNonIndented_newline_unasked(s, inp, p0, valid) ==
    LET p1 == skip_horizontal_ws(inp, p0)
    IN  IF IsNewline(lookahead(inp, p1))
        THEN Done(Emit(s, "NEWLINE", SkipNewlines(inp, p1), "delim_newline"))
        ELSE Through(skip_all_ws(inp, p1))

LayoutNonIndented(s, inp, p0, valid) ==
    LET p1 == skip_horizontal_ws(inp, p0)
    IN  IF "NEWLINE" \in valid /\ IsNewline(lookahead(inp, p1))
        THEN Done(Emit(s, "NEWLINE", SkipNewlines(inp, p1), "delim_newline"))
        ELSE LET p2 == skip_all_ws(inp, p1)
             IN  IF "START_BLOCK" \in valid /\ lookahead(inp, p2) # C("#")
                 THEN Done(StartBlock(s, inp, p2, "delim_start_block"))
                 ELSE Through(p2)

\* A dedent that closes one block whatever the column.
dedent_count_one(s, col) == 1

\* The number of frames a line that starts at column col closes.  The loop
\* counts down from depth-1 to 1 while the frame is INDENTED and opened
\* right of col; a count of 0 is made 1.
dedent_count(s, col) ==
    LET stops == { i \in 1..(s.depth - 1) :
                     ~(Slot(s.stack, i).kind = FRAME_INDENTED
                       /\ Slot(s.stack, i).block_col > col) }
        n == IF stops = {} THEN s.depth - 1 ELSE (s.depth - 1) - Max(stops)
    IN  IF n = 0 THEN 1 ELSE n

IsCloser(c) == c = C(")") \/ c = C("]") \/ c = C(",") \/ c = C("}")

\* An indentation check that takes every line at or right of block_col for
\* a new statement.
IndentCheck_deeper_is_new_line(s, inp, p, valid) ==
    IF get_column(inp, p) >= top_frame(s).block_col /\ "NEWLINE" \in valid
    THEN Done(Emit(s, "NEWLINE", p, "line_newline"))
    ELSE Through(p)

\* The indentation check of a line whose first token stands at p.
IndentCheck(s, inp, p, valid) ==
    LET col == get_column(inp, p)
        frame == top_frame(s)
    IN  IF col < frame.block_col
        THEN IF "NEWLINE" \in valid
             THEN Done(Emit([ s EXCEPT !.pending_end_blocks = dedent_count(s, col) ],
                            "NEWLINE", p, "dedent_newline"))
             ELSE IF "END_BLOCK" \in valid
             THEN Done(Emit(pop_frame([ s EXCEPT !.pending_end_blocks =
                                                     dedent_count(s, col) - 1 ]),
                            "END_BLOCK", p, "dedent_end_block"))
             ELSE Through(p)
        ELSE IF col = frame.block_col /\ "NEWLINE" \in valid
        THEN Done(Emit(s, "NEWLINE", p, "line_newline"))
        ELSE Through(p)

\* A layout section that does not look for closing delimiters.
CloserCheck_skipped(s, inp, p, at_newline, valid) ==
    IF at_newline THEN IndentCheck(s, inp, p, valid) ELSE Through(p)

\* The closing delimiters and the comma, which end indented blocks.
CloserCheck(s, inp, p, at_newline, valid) ==
    IF IsCloser(lookahead(inp, p)) /\ "NEWLINE" \in valid
    THEN LET count == indented_frames_above_delimiter(s)
         IN  Done(Emit(IF count > 0 THEN [ s EXCEPT !.pending_end_blocks = count ] ELSE s,
                       "NEWLINE", p, "closer_newline"))
    ELSE IF IsCloser(lookahead(inp, p)) /\ "END_BLOCK" \in valid
            /\ top_frame(s).kind = FRAME_INDENTED /\ s.depth > 1
    THEN Done(Emit(pop_frame(s), "END_BLOCK", p, "closer_end_block"))
    ELSE IF at_newline THEN IndentCheck(s, inp, p, valid)
    ELSE Through(p)

\* The layout of indented mode with the end of the input tested before the
\* newlines are skipped.
LayoutIndented_eof_first(s, inp, p0, valid) ==
    LET p1 == skip_horizontal_ws(inp, p0)
        at_newline == IsNewline(lookahead(inp, p1))
        p2 == SkipNewlines(inp, p1)
    IN  IF eof(inp, p1) THEN Done(EofRule(s, p0, p2, valid))
        ELSE IF "START_BLOCK" \in valid
        THEN LET p3 == IF ~at_newline /\ IsNewline(lookahead(inp, p2))
                       THEN skip_blank_lines(inp, p2)
                       ELSE p2
             IN  IF lookahead(inp, p3) # C("#")
                 THEN Done(StartBlock(s, inp, p3,
                               IF at_newline THEN "start_block" ELSE "start_block_same_line"))
                 ELSE CloserCheck(s, inp, p3, at_newline, valid)
        ELSE CloserCheck(s, inp, p2, at_newline, valid)

LayoutIndented(s, inp, p0, valid) ==
    LET p1 == skip_horizontal_ws(inp, p0)
        at_newline == IsNewline(lookahead(inp, p1))
        p2 == SkipNewlines(inp, p1)
    IN  IF eof(inp, p2) THEN Done(EofRule(s, p0, p2, valid))
        ELSE IF "START_BLOCK" \in valid
        THEN LET p3 == IF ~at_newline /\ IsNewline(lookahead(inp, p2))
                       THEN skip_blank_lines(inp, p2)
                       ELSE p2
             IN  IF lookahead(inp, p3) # C("#")
                 THEN Done(StartBlock(s, inp, p3,
                               IF at_newline THEN "start_block" ELSE "start_block_same_line"))
                 ELSE CloserCheck(s, inp, p3, at_newline, valid)
        ELSE CloserCheck(s, inp, p2, at_newline, valid)

Layout(s, inp, p0, valid) ==
    IF in_non_indented(s)
    THEN LayoutNonIndented(s, inp, p0, valid)
    ELSE LayoutIndented(s, inp, p0, valid)

\* Sections 3 and 4: l is what the layout section did.
LayoutThenToken(s, inp, p0, valid, l) ==
    IF l.done THEN l.res ELSE ScanToken(s, inp, p0, l.pos, valid)

(***************************************************************************)
(* scan.                                                                   *)
(***************************************************************************)
\* scan with string mode tried before the queued dedents.
scan_string_mode_first(s, inp, p, valid) ==
    IF s.in_string THEN ScanString(s, inp, p, valid)
    ELSE IF s.pending_end_blocks > 0 /\ "END_BLOCK" \in valid
    THEN Emit(pop_frame([ s EXCEPT !.pending_end_blocks = s.pending_end_blocks - 1 ]),
              "END_BLOCK", p, "pending")
    ELSE LayoutThenToken(s, inp, p, valid, Layout(s, inp, p, valid))

scan(s, inp, p, valid) ==
    IF s.pending_end_blocks > 0 /\ "END_BLOCK" \in valid
    THEN Emit(pop_frame([ s EXCEPT !.pending_end_blocks = s.pending_end_blocks - 1 ]),
              "END_BLOCK", p, "pending")
    ELSE IF s.in_string THEN ScanString(s, inp, p, valid)
    ELSE LayoutThenToken(s, inp, p, valid, Layout(s, inp, p, valid))

(***************************************************************************)
(* create, serialize, deserialize.                                         *)
(***************************************************************************)
create ==
    [ stack |-> [ i \in 0..0 |-> ZeroFrame ],
      depth |-> 1,
      pending_end_blocks |-> 0,
      in_string |-> FALSE,
      eof_newline_emitted |-> FALSE ]

\* TREE_SITTER_SERIALIZATION_BUFFER_SIZE of tree_sitter/parser.h.
SERIALIZATION_BUFFER_SIZE == 1024

\* The values of enum FrameKind.
KindCode ==
    [ k \in FrameKind |->
        IF k = FRAME_INDENTED THEN 0
        ELSE IF k = FRAME_PAREN THEN 1
        ELSE IF k = FRAME_BRACKET THEN 2
        ELSE 3 ]

\* (FrameKind)b for a byte that holds a value of the enum.
KindOf(b) == CHOOSE k \in FrameKind : KindCode[k] = b

\* (char)x: the buffer is an array of char, a signed byte.
ToChar(x) == IF x % 256 >= 128 THEN (x % 256) - 256 ELSE x % 256

\* (uint8_t)c and (unsigned char)c
ToU8(c) == c % 256

BoolByte(b) == IF b THEN 1 ELSE 0

\* The frames the loops of serialize and deserialize go through: frame i
\* is reached while i < depth and its three bytes end within limit.
FrameCount(depth, limit) ==
    Cardinality({ i \in 0..(depth - 1) : 4 + 3 * i + 3 <= limit })

\* serialize with a zero written in place of eof_newline_emitted.
serialize_without_latch(s) ==
    LET n == FrameCount(s.depth, SERIALIZATION_BUFFER_SIZE)
    IN  [ k \in 1..(4 + 3 * n) |->
            IF k = 1 THEN ToChar(s.depth)
            ELSE IF k = 2 THEN ToChar(s.pending_end_blocks)
            ELSE IF k = 3 THEN ToChar(BoolByte(s.in_string))
            ELSE IF k = 4 THEN 0
            ELSE LET f == Slot(s.stack, (k - 5) \div 3)
                 IN  IF (k - 5) % 3 = 0 THEN ToChar(KindCode[f.kind])
                     ELSE IF (k - 5) % 3 = 1 THEN ToChar(f.block_col % 256)
                     ELSE ToChar((f.block_col \div 256) % 256) ]

\* The bytes written to the buffer; their number is the length returned.
serialize(s) ==
    LET n == FrameCount(s.depth, SERIALIZATION_BUFFER_SIZE)
    IN  [ k \in 1..(4 + 3 * n) |->
            IF k = 1 THEN ToChar(s.depth)
            ELSE IF k = 2 THEN ToChar(s.pending_end_blocks)
            ELSE IF k = 3 THEN ToChar(BoolByte(s.in_string))
            ELSE IF k = 4 THEN ToChar(BoolByte(s.eof_newline_emitted))
            ELSE LET f == Slot(s.stack, (k - 5) \div 3)
                 IN  IF (k - 5) % 3 = 0 THEN ToChar(KindCode[f.kind])
                     ELSE IF (k - 5) % 3 = 1 THEN ToChar(f.block_col % 256)
                     ELSE ToChar((f.block_col \div 256) % 256) ]

\* The frame read from the bytes at buffer[pos..pos+2] (buffer[pos] is buf[pos + 1]).
ReadFrame(buf, pos) ==
    [ kind |-> KindOf(buf[pos + 1]),
      block_col |-> U16(ToU8(buf[pos + 2]) + ToU8(buf[pos + 3]) * 256) ]

\* deserialize that reads the four leading bytes and leaves the frames of
\* the receiving object as they are.
deserialize_header_only(s, buf) ==
    [ stack |-> s.stack,
      depth |-> ToU8(buf[1]),
      pending_end_blocks |-> ToU8(buf[2]),
      in_string |-> buf[3] # 0,
      eof_newline_emitted |-> buf[4] # 0 ]

\* deserialize into the scanner state s (the receiving object) from buf.
deserialize(s, buf) ==
    IF Len(buf) = 0
    THEN [ s EXCEPT !.depth = 1,
                    !.stack = WriteSlot(s.stack, 0, ZeroFrame),
                    !.pending_end_blocks = 0,
                    !.in_string = FALSE,
                    !.eof_newline_emitted = FALSE ]
    ELSE LET n == FrameCount(ToU8(buf[1]), Len(buf))
             top == IF n > Written(s.stack) THEN n ELSE Written(s.stack)
         IN  [ stack |-> [ i \in 0..(top - 1) |->
                             IF i < n THEN ReadFrame(buf, 4 + 3 * i) ELSE Slot(s.stack, i) ],
               depth |-> ToU8(buf[1]),
               pending_end_blocks |-> ToU8(buf[2]),
               in_string |-> buf[3] # 0,
               eof_newline_emitted |-> buf[4] # 0 ]

(***************************************************************************)
(* The host.  It creates a scanner and calls scan repeatedly on one input, *)
(* each time with a bitmap of its choice, continuing from the position the *)
(* previous call left.  The remaining variables record the run: the number *)
(* of calls, the outcome of the last call, and counts of the layout tokens *)
(* emitted so far.                                                         *)
(***************************************************************************)
VARIABLES
    input,          \* the input of the run
    pos,            \* the position of the lexer between calls
    sc,             \* the scanner state
    calls,          \* the number of calls of scan made
    last,           \* the outcome of the last call
    nStart,         \* START_BLOCK tokens emitted
    nEnd,           \* END_BLOCK tokens emitted
    nEofNewline,    \* NEWLINE tokens emitted by the end-of-input rule
    everFull,       \* depth has been MAX_DEPTH at some call boundary
    newlineAlways,  \* NEWLINE was valid on every call so far
    inputB,         \* a second run, in step with the first: its input,
    posB,           \*   position,
    scB,            \*   scanner state,
    lastB,          \*   and last outcome
    spare,          \* a second scanner object of the second run's host
    buf,            \* the bytes serialize wrote at this call boundary, if any
    log             \* the calls of an example run, in order

vars ==
    << input, pos, sc, calls, last, nStart, nEnd, nEofNewline, everFull,
       newlineAlways, inputB, posB, scB, lastB, spare, buf, log >>

runB == << inputB, posB, scB, lastB, spare, buf >>

\* The calls of scan a run makes.
MaxCalls == 5

\* The inputs: every string over Sigma of at most MaxLen characters, and
\* some longer ones.
MaxLen == 2

Sigma == { "a", " ", "\n", "(", ")", "\"", "BQ" }

RECURSIVE Strings(_)
Strings(n) ==
    IF n = 0 THEN { << >> }
    ELSE LET shorter == Strings(n - 1)
         IN  shorter \cup { Append(w, ch) : w \in { x \in shorter : Len(x) = n - 1 }, ch \in Sigma }

LongerInputs ==
    { <<"_", "a">>, <<"_", "A">>, <<"_", "_">>, <<"#", "a", "\n">>,
      <<",", "a">>, <<"{", "}">>, <<"[", "]">>, <<"a", ":">>, <<"]">>, <<"}">>,
      <<" ", "a", "\n", "a">>,
      <<"\t", "a", "\r", "a">>,
      <<"(", "a", ",", "\n", " ", "b", ")">>,
      <<"a", ":", "\n", " ", "a">>,
      <<"(", "a", ":", "a", ")">>,
      <<"\"", "BQ", "\"", "a", "\"">>,
      <<"\"", "a", "BQ", "a", "BQ", "\"">> }

Inputs == { Str(w) : w \in Strings(MaxLen) \cup LongerInputs }

\* The bitmaps: any choice of the layout tokens, with every other token
\* kind valid or none.
Oracles == { l \cup c : l \in SUBSET LayoutTokens, c \in { {}, ContentTokens } }

NoCall == [ ok |-> FALSE, sym |-> "NONE", rule |-> "none", gated |-> TRUE, moved |-> FALSE ]

\* What is kept of a call that started at p with the bitmap v.
Outcome(r, v, p) ==
    [ ok |-> r.ok, sym |-> r.sym, rule |-> r.rule,
      gated |-> (r.ok => r.sym \in v), moved |-> (r.pos # p) ]

InitRun ==
    /\ pos = 1
    /\ sc = create
    /\ calls = 0
    /\ last = NoCall
    /\ nStart = 0
    /\ nEnd = 0
    /\ nEofNewline = 0
    /\ everFull = FALSE
    /\ newlineAlways = TRUE
    /\ log = << >>

NoRunB ==
    /\ inputB = << >>
    /\ posB = 1
    /\ scB = create
    /\ lastB = NoCall
    /\ spare = create
    /\ buf = << >>

Init ==
    /\ input \in Inputs
    /\ InitRun
    /\ NoRunB

\* One call of scan on the first run, with the bitmap v and the result r.
Returned(v, r) ==
    /\ UNCHANGED input
    /\ sc' = r.sc
    /\ pos' = r.pos
    /\ last' = Outcome(r, v, pos)
    /\ nStart' = nStart + (IF r.ok /\ r.sym = "START_BLOCK" THEN 1 ELSE 0)
    /\ nEnd' = nEnd + (IF r.ok /\ r.sym = "END_BLOCK" THEN 1 ELSE 0)
    /\ nEofNewline' = nEofNewline + (IF r.rule = "eof_newline" THEN 1 ELSE 0)
    /\ everFull' = (everFull \/ r.sc.depth = MAX_DEPTH)
    /\ newlineAlways' = (newlineAlways /\ "NEWLINE" \in v)

Call(v) == Returned(v, scan(sc, input, pos, v))

\* The same call on the second run.
ReturnedB(v, r) ==
    /\ UNCHANGED << inputB, spare >>
    /\ scB' = r.sc
    /\ posB' = r.pos
    /\ lastB' = Outcome(r, v, posB)
    /\ buf' = << >>

CallB(v) == ReturnedB(v, scan(scB, inputB, posB, v))

Scan ==
    /\ calls < MaxCalls
    /\ calls' = calls + 1
    /\ \E v \in Oracles : Call(v)
    /\ UNCHANGED runB
    /\ UNCHANGED log

Next == Scan

Spec == Init /\ [][Next]_vars

(***************************************************************************)
(* Deep stacks.  A parser that asks for START_BLOCK alone, before a token  *)
(* that is neither a comment nor a newline, is given START_BLOCK again and *)
(* again without the input being consumed: each call pushes a frame.  The  *)
(* runs of SpecDeep begin with any number of such calls (Fill), and go on  *)
(* with MaxCalls calls of any bitmap, from the start or once the stack is  *)
(* nearly full.                                                            *)
(***************************************************************************)
DeepInputs ==
    { Str(w) : w \in { <<"(">>, <<"[">>, <<"{">>, <<"\\", "(">>, <<"\"", "BQ">>,
                       <<"a">>, <<")">>, <<" ", "a", "\n", "a">> } }

InitDeep ==
    /\ input \in DeepInputs
    /\ InitRun
    /\ NoRunB

Fill ==
    /\ calls = 0
    /\ sc.depth < MAX_DEPTH
    /\ Call({ "START_BLOCK" })
    /\ UNCHANGED calls
    /\ UNCHANGED runB
    /\ UNCHANGED log

ScanDeep ==
    /\ (calls > 0 \/ sc.depth = 1 \/ sc.depth >= MAX_DEPTH - 1)
    /\ Scan

NextDeep == Fill \/ ScanDeep

SpecDeep == InitDeep /\ [][NextDeep]_vars

(***************************************************************************)
(* Snapshots.  The second run scans the same input with the same bitmaps   *)
(* as the first, and its host may, between two calls, serialize the        *)
(* scanner and deserialize the bytes into the same scanner object or into  *)
(* its spare one, with which it continues; the object left behind keeps    *)
(* its state.                                                              *)
(***************************************************************************)
SnapInputs ==
    { Str(w) : w \in { << >>, <<"a">>, <<"(", ")">>, <<"[", "a">>,
                       <<"\"", "BQ", "\"">>, <<"\"", "BQ", "a", "BQ">>,
                       <<" ", "a", "\n", "a">> } }
    \cup { Rep(C(" "), 300) \o Str(<<"a">>) }

InitSnap ==
    /\ input \in SnapInputs
    /\ InitRun
    /\ inputB = input
    /\ posB = 1
    /\ scB = create
    /\ lastB = NoCall
    /\ spare = create
    /\ buf = << >>

run ==
    << input, pos, sc, calls, last, nStart, nEnd, nEofNewline, everFull,
       newlineAlways, log >>

FillBoth ==
    /\ calls = 0
    /\ sc.depth < MAX_DEPTH
    /\ Call({ "START_BLOCK" })
    /\ CallB({ "START_BLOCK" })
    /\ UNCHANGED calls
    /\ UNCHANGED log

ScanBoth ==
    /\ calls < MaxCalls
    /\ calls' = calls + 1
    /\ \E v \in Oracles : Call(v) /\ CallB(v)
    /\ UNCHANGED log

ScanBothDeep ==
    /\ (calls > 0 \/ sc.depth = 1 \/ sc.depth >= MAX_DEPTH - 1)
    /\ ScanBoth

\* One snapshot at a call boundary.
Serialize ==
    /\ buf = << >>
    /\ lastB.rule # "deserialize"
    /\ (calls > 0 \/ sc.depth = 1 \/ sc.depth = MAX_DEPTH)
    /\ buf' = serialize(scB)
    /\ UNCHANGED << run, inputB, posB, scB, lastB, spare >>

\* Into the same object, or into the spare one: the two objects change places.
Deserialize ==
    /\ buf # << >>
    /\ \/ /\ scB' = deserialize(scB, buf)
          /\ UNCHANGED spare
       \/ /\ scB' = deserialize(spare, buf)
          /\ spare' = scB
    /\ lastB' = [ lastB EXCEPT !.rule = "deserialize" ]
    /\ buf' = << >>
    /\ UNCHANGED << run, inputB, posB >>

NextSnap == FillBoth \/ ScanBothDeep \/ Serialize \/ Deserialize

SpecSnap == InitSnap /\ [][NextSnap]_vars

(***************************************************************************)
(* Twin runs.  The second run scans the input of the first followed by one *)
(* newline, with the same bitmaps, until a call of either run returns      *)
(* false at the end of its input.                                          *)
(***************************************************************************)
NoFinalNewline(inp) == Len(inp) = 0 \/ inp[Len(inp)] # C("\n")

InitTwin ==
    /\ input \in { i \in Inputs : NoFinalNewline(i) }
    /\ InitRun
    /\ inputB = input \o << C("\n") >>
    /\ posB = 1
    /\ scB = create
    /\ lastB = NoCall
    /\ spare = create
    /\ buf = << >>

\* The last call returned false with the lexer at the end of the input.
AtEnd(l) == ~l.ok /\ l.rule \in { "eof", "string_eof" }

ScanTwin ==
    /\ ~AtEnd(last) /\ ~AtEnd(lastB)
    /\ ScanBoth

NextTwin == ScanTwin

SpecTwin == InitTwin /\ [][NextTwin]_vars

(***************************************************************************)
(* Example runs.  The inputs are source fragments; the parser either       *)
(* offers every token kind, or every kind but START_BLOCK, or every kind   *)
(* but START_BLOCK and LABEL.  Each call is logged with its bitmap, its    *)
(* result and the position at which it began and ended; a run stops at a   *)
(* call that returns false at the end of the input.  Each entry also holds *)
(* the scanner state before and after the call.                            *)
(***************************************************************************)
ExampleInputs ==
    { Str(w) : w \in {
        <<"i", "f", " ", "x", ":", "\n", " ", " ", " ", " ", "y", "\n">>,
        <<"'", "l", "o", "o", "p", "'", "x">>,
        <<"\"", "h", "i", " ", "BQ", "n", "BQ", " ", "t", "h", "e", "r", "e", "\"">>,
        <<"a", "\n", " ", " ", " ", " ", "+", " ", "b">>,
        <<"\"", "BQ", "\"", "a", "\"", "BQ", "\"">>,
        <<"#", "c", "\n", "#", "d">>,
        <<"\"", "a", "\\">>,
        <<"'", "A">>,
        <<"\\", "a">>,
        <<"0", "x", "g">>,
        <<"0", "b", "2">> } }

NoBlock == TokenType \ { "START_BLOCK" }

ExOracles == { TokenType, NoBlock, NoBlock \ { "LABEL" } }

MaxExCalls == 8

Logged(v, r, p, s) ==
    [ ok |-> r.ok, sym |-> r.sym, from |-> p, to |-> r.pos, valid |-> v,
      before |-> s, after |-> r.sc ]

ReturnedEx(v, r) ==
    /\ Returned(v, r)
    /\ log' = Append(log, Logged(v, r, pos, sc))

CallEx(v) == ReturnedEx(v, scan(sc, input, pos, v))

InitEx ==
    /\ input \in ExampleInputs
    /\ InitRun
    /\ NoRunB

ScanEx ==
    /\ calls < MaxExCalls
    /\ ~AtEnd(last)
    /\ calls' = calls + 1
    /\ \E v \in ExOracles : CallEx(v)
    /\ UNCHANGED runB

NextEx == ScanEx

SpecEx == InitEx /\ [][NextEx]_vars

(***************************************************************************)
(* Nested delimiters.  The inputs are well nested; the parser offers the   *)
(* content tokens alone, or with START_BLOCK, or with NEWLINE, or with     *)
(* NEWLINE and END_BLOCK.  The calls are logged as in the example runs.    *)
(***************************************************************************)
NestInputs ==
    { Str(w) : w \in { <<"(", ")">>, <<"[", "]">>, <<"{", "}">>, <<"\\", "(", ")">>,
                       <<"(", "{", "}", ")">>, <<"[", "(", ")", "]">>,
                       <<"{", "[", "]", "}">>, <<"(", ")", "(", ")">> } }

NestOracles ==
    { ContentTokens, ContentTokens \cup { "START_BLOCK" },
      ContentTokens \cup { "NEWLINE" }, NoBlock }

MaxNestCalls == 6

InitNest ==
    /\ input \in NestInputs
    /\ InitRun
    /\ NoRunB

ScanNest ==
    /\ calls < MaxNestCalls
    /\ ~AtEnd(last)
    /\ calls' = calls + 1
    /\ \E v \in NestOracles : CallEx(v)
    /\ UNCHANGED runB

NextNest == ScanNest

SpecNest == InitNest /\ [][NextNest]_vars

\* The kinds of the tokens emitted so far, and the text the k-th call went
\* over, skipped whitespace included.
RECURSIVE Kinds(_)
Kinds(l) ==
    IF l = << >> THEN << >>
    ELSE LET rest == Kinds(Tail(l))
         IN  IF Head(l).ok THEN << Head(l).sym >> \o rest ELSE rest

Text(k) == SubSeq(input, log[k].from, log[k].to - 1)

(***************************************************************************)
(* Properties.                                                             *)
(***************************************************************************)

\* C1: after any sequence of scan calls from the state create returns, on
\* any input and with any bitmaps, whether the calls return true or false,
\* depth is at least 1 and stack[0] is an INDENTED frame with block_col 0.
C1_DepthAndSentinel ==
    /\ sc.depth >= 1
    /\ sc.stack[0].kind = FRAME_INDENTED
    /\ sc.stack[0].block_col = 0

\* The first call queued a dedent with nothing but the sentinel on the stack
\* and the second drained it: pop_frame was called at depth 1.
C1_Witness ==
    /\ calls = 2
    /\ last.rule = "pending"
    /\ sc.depth = 1

\* C2: every call that returns true emits a token kind that was valid on
\* that call.
C2_OracleHonoured == last.ok => last.gated

\* Two scanner states are equal in depth, pending_end_blocks, in_string,
\* eof_newline_emitted and every live frame.
LiveEq(a, b) ==
    /\ a.depth = b.depth
    /\ a.pending_end_blocks = b.pending_end_blocks
    /\ a.in_string = b.in_string
    /\ a.eof_newline_emitted = b.eof_newline_emitted
    /\ \A i \in 0..(a.depth - 1) : Slot(a.stack, i) = Slot(b.stack, i)

\* C3: for every scanner state s reached by scan calls, deserialize applied
\* to the bytes serialize(s) wrote yields a state equal to s in depth,
\* pending_end_blocks, in_string, eof_newline_emitted and every live frame,
\* whatever state the receiving scanner held: a fresh one, s itself or the
\* state of the spare object.
C3_RoundTrip ==
    \A rcv \in { create, scB, spare } :
        LiveEq(deserialize(rcv, serialize(scB)), scB)

\* A stack of MAX_DEPTH frames opened right of column 255 has just been
\* restored, and the spare object holds a shallower state.
C3_Witness ==
    /\ lastB.rule = "deserialize"
    /\ scB.depth = MAX_DEPTH
    /\ top_frame(scB).block_col >= 256
    /\ spare.depth < scB.depth

\* C4: a run whose host serializes and deserializes the scanner between
\* calls, into the same object or into another one that holds stale frames,
\* gets from every call the result (true or false, and the token kind) that
\* the run without snapshots gets on the same input with the same bitmaps.
C4_SameResults ==
    /\ last.ok = lastB.ok
    /\ last.sym = lastB.sym

\* Several calls were made, the last one returned a token after a restore
\* into an object whose stale slots differ from those of the other run.
C4_Witness ==
    /\ calls >= 3
    /\ last.ok
    /\ lastB.rule # "deserialize"
    /\ spare # create
    /\ scB.stack # sc.stack

InHole(s) == s.in_string /\ top_frame(s).kind = FRAME_INTERPOLATION

\* C5 as stated: at every call boundary, if in_string is true then the
\* topmost frame is not an INTERPOLATION frame.
C5_NotInHole == ~InHole(sc)

\* C5 amended: a call that emits BEGIN_INTERPOLATION leaves in_string false;
\* in_string with an INTERPOLATION frame on top arises only by a call that
\* emits BEGIN_STR, END_INTERPOLATION or END_BLOCK, that is with a string
\* opened or resumed inside an interpolation hole.
C5_HoleEntered ==
    [][ /\ (last'.ok /\ last'.sym = "BEGIN_INTERPOLATION") => ~sc'.in_string
        /\ (InHole(sc') /\ ~InHole(sc))
              => (last'.ok /\ last'.sym \in { "BEGIN_STR", "END_INTERPOLATION", "END_BLOCK" })
      ]_vars

\* A string has been opened inside a hole of an enclosing string.
C5_Witness ==
    /\ InHole(sc)
    /\ last.sym = "BEGIN_STR"
    /\ sc.depth = 2

\* The state a call with END_BLOCK valid, and nothing else, leaves.
Drained(s, p) == scan(s, input, p, { "END_BLOCK" }).sc

\* The calls an END_BLOCK-accepting parser can make next all emit END_BLOCK
\* without consuming and leave the same state, and after n of them the
\* queue is empty; r is the result of one such call made in the state s at p.
C6_Drained(s, p, r) ==
    /\ r.ok
    /\ r.sym = "END_BLOCK"
    /\ r.pos = p
    /\ r.sc.pending_end_blocks = s.pending_end_blocks - 1
    /\ r.sc = Drained(s, p)

RECURSIVE C6_DrainsIn(_, _, _, _)
C6_DrainsIn(s, p, n, pending) ==
    IF n = 0 THEN pending = 0
    ELSE /\ pending > 0
         /\ \A v \in { o \in Oracles : "END_BLOCK" \in o } :
                C6_Drained(s, p, scan(s, input, p, v))
         /\ C6_DrainsIn(Drained(s, p), p, n - 1, pending - 1)

\* C6: from any reachable state with pending_end_blocks = n > 0, if
\* END_BLOCK is valid on every following call, each of the next n calls
\* emits END_BLOCK without consuming input, and pending_end_blocks is zero
\* after exactly n of them and not before.
C6_Drains ==
    sc.pending_end_blocks > 0
        => C6_DrainsIn(sc, pos, sc.pending_end_blocks, sc.pending_end_blocks)

\* Two dedents were queued and the first has been drained.
C6_Witness ==
    /\ last.rule = "pending"
    /\ ~last.moved
    /\ sc.pending_end_blocks = 1

\* The input holds no delimiter, comma, quote or back quote: every frame
\* above the sentinel is one that START_BLOCK pushed.
Plain(inp) ==
    \A i \in 1..Len(inp) :
        inp[i] \notin { C("("), C(")"), C("["), C("]"), C("{"), C("}"), C(","),
                        C("\""), C("BQ") }

\* C7 as stated: over a complete run, until scan returns false at the end
\* of the input, as many START_BLOCK tokens are emitted as END_BLOCK tokens.
C7_Balanced ==
    (Plain(input) /\ AtEnd(last)) => nStart = nEnd

C7_FalseAtEnd(r) == ~r.ok /\ r.rule = "eof"

\* C7 amended: on such an input, as long as depth has not reached
\* MAX_DEPTH, the START_BLOCK tokens emitted so far exceed the END_BLOCK
\* tokens by depth - 1 at every call boundary; so the two counts are equal
\* whenever a call that has END_BLOCK valid returns false at the end of the
\* input.
C7_OpenBlocks ==
    (Plain(input) /\ ~everFull) =>
        /\ nStart - nEnd = sc.depth - 1
        /\ \A v \in { o \in Oracles : "END_BLOCK" \in o } :
               C7_FalseAtEnd(scan(sc, input, pos, v)) => nStart = nEnd

\* A block was opened and closed, and the run has ended.
C7_Witness ==
    /\ Plain(input)
    /\ ~everFull
    /\ AtEnd(last)
    /\ nStart = 1
    /\ nEnd = 1

\* The tokens whose emission pushes a frame.
PushTokens ==
    { "START_BLOCK", "LPAREN", "LBRACKET", "LBRACE", "BACKSLASH_LPAREN",
      "BEGIN_INTERPOLATION" }

\* The state s with one frame fewer below its topmost frame.
C8_Shallower(s) ==
    [ s EXCEPT !.depth = s.depth - 1,
               !.stack = WriteSlot(s.stack, s.depth - 2, top_frame(s)) ]

\* rs is the result of a call with room on the stack, rf that of the same
\* call with the stack s full: a call that pushes in the first returns the
\* same token at the same place in the second, and leaves s as it was.
C8_Dropped(s, rs, rf) ==
    (rs.ok /\ rs.sym \in PushTokens /\ rs.sc.depth = s.depth)
        => /\ rf.ok
           /\ rf.sym = rs.sym
           /\ rf.pos = rs.pos
           /\ rf.sc.depth = s.depth
           /\ rf.sc.stack = s.stack

\* C8: depth never exceeds 128, and a call that would push a frame, made
\* when depth = 128, returns true with the same token (START_BLOCK, LPAREN,
\* LBRACKET, LBRACE, BACKSLASH_LPAREN or BEGIN_INTERPOLATION) and leaves
\* the stack and depth unchanged.
C8_PushDropped ==
    /\ sc.depth <= MAX_DEPTH
    /\ sc.depth = MAX_DEPTH =>
           \A v \in Oracles :
               C8_Dropped(sc, scan(C8_Shallower(sc), input, pos, v), scan(sc, input, pos, v))

\* The stack was filled by START_BLOCK alone, and BEGIN_INTERPOLATION has
\* been emitted since without a frame being pushed.
C8_Witness ==
    /\ nStart = MAX_DEPTH - 1
    /\ nEnd = 0
    /\ sc.depth = MAX_DEPTH
    /\ last.ok
    /\ last.sym = "BEGIN_INTERPOLATION"

\* C9: on an empty input with NEWLINE valid on every call, the first call
\* emits NEWLINE and sets eof_newline_emitted and every later call returns
\* false; and in any run, on any input, the NEWLINE of the end-of-input rule
\* is emitted at most once.
C9_EmptyInput ==
    /\ (Len(input) = 0 /\ newlineAlways) =>
           /\ calls = 1 => (last.ok /\ last.sym = "NEWLINE" /\ sc.eof_newline_emitted)
           /\ calls >= 2 => ~last.ok
    /\ nEofNewline <= 1

\* Three calls on the empty input with NEWLINE valid each time.
C9_Witness ==
    /\ Len(input) = 0
    /\ newlineAlways
    /\ calls = 3
    /\ nEofNewline = 1
    /\ ~last.ok

\* C10 as stated: the run on s and the run on s followed by a newline get
\* the same result from every call, until a call returns false at the end
\* of the input.
C10_SameKinds ==
    /\ last.ok = lastB.ok
    /\ last.sym = lastB.sym

\* The two runs are in step: equal scanner states, and the lexers at the
\* same place or each at the end of its input.
C10_InStep ==
    /\ sc = scB
    /\ \/ pos = posB
       \/ pos = Len(input) + 1 /\ posB = Len(inputB) + 1

\* Only blanks are left of s, and the scanner is in a string or inside a
\* delimiter (the topmost frame is not INDENTED).
C10_OpenAtEnd ==
    /\ skip_all_ws(input, pos) > Len(input)
    /\ sc.in_string \/ in_non_indented(sc)

\* C10 amended: as long as no call is made with only blanks left of s while
\* the scanner is in a string or inside a delimiter, the two runs get the
\* same result from every call and stay in step.
C10_SameUnlessOpen ==
    [][ (C10_InStep /\ ~C10_OpenAtEnd)
            => (last'.ok = lastB'.ok /\ last'.sym = lastB'.sym /\ C10_InStep')
      ]_vars

\* Both runs have emitted the NEWLINE of the end-of-input rule, the second
\* one after the newline added to its input.
C10_Witness ==
    /\ Len(input) >= 2
    /\ last.rule = "eof_newline"
    /\ lastB.rule = "eof_newline"
    /\ pos # posB
    /\ sc = scB


IfBlock == Str(<<"i", "f", " ", "x", ":", "\n", " ", " ", " ", " ", "y", "\n">>)

IfBlockStream ==
    << "KW_IF", "LOWER_ID", "COLON", "START_BLOCK", "LOWER_ID", "NEWLINE",
       "END_BLOCK", "NEWLINE" >>

Prefix(a, b) == Len(a) <= Len(b) /\ a = SubSeq(b, 1, Len(a))

AllValid(l) == \A k \in 1..Len(l) : l[k].valid = TokenType

AllOk(l) == \A k \in 1..Len(l) : l[k].ok

\* START_BLOCK is valid on the call after a COLON, and on no other call.
BlockAfterColon(l) ==
    \A k \in 1..Len(l) :
        l[k].valid = (IF k > 1 /\ l[k - 1].ok /\ l[k - 1].sym = "COLON"
                      THEN TokenType ELSE NoBlock)

\* C11: on the input "if x:", newline, four spaces, "y", newline, with
\* every token kind valid on every call, the tokens emitted are exactly
\* KW_IF, LOWER_ID, COLON, START_BLOCK, LOWER_ID, NEWLINE, END_BLOCK, NEWLINE:
\* every call so far returned true with the next token of that stream.
C11_Stream ==
    (input = IfBlock /\ AllValid(log)) =>
        /\ Len(log) <= Len(IfBlockStream) => AllOk(log)
        /\ Prefix(Kinds(log), IfBlockStream)

\* C11, amended: when START_BLOCK is valid on the call after COLON and on no
\* other call, and every other kind on every call, the tokens emitted are
\* KW_IF, LOWER_ID, COLON, START_BLOCK, LOWER_ID, NEWLINE, END_BLOCK, and the
\* eighth call returns false: the end-of-input NEWLINE was the sixth token.
C11_StreamAfterColon ==
    (input = IfBlock /\ BlockAfterColon(log)) =>
        /\ Prefix(Kinds(log), SubSeq(IfBlockStream, 1, 7))
        /\ \A k \in 1..Len(log) : log[k].ok = (k <= 7)

C11_Witness ==
    /\ input = IfBlock
    /\ BlockAfterColon(log)
    /\ Len(log) = 8
    /\ Kinds(log) = SubSeq(IfBlockStream, 1, 7)
    /\ ~log[8].ok

\* Whatever the bitmaps of the example runs, the eight tokens are not emitted.
C11_Never == ~(input = IfBlock /\ Kinds(log) = IfBlockStream)


LoopLabel == Str(<<"'", "l", "o", "o", "p", "'", "x">>)

\* C12: on the input 'loop'x with LABEL, CHAR_LITERAL and LOWER_ID valid
\* (and START_BLOCK not), the first call emits LABEL covering 'loop and the
\* second call emits LOWER_ID covering x.
C12_LabelThenId ==
    (input = LoopLabel /\ \A k \in 1..Len(log) : log[k].valid = NoBlock) =>
        /\ Len(log) >= 1 =>
              log[1].ok /\ log[1].sym = "LABEL" /\ Text(1) = SubSeq(LoopLabel, 1, 5)
        /\ Len(log) >= 2 =>
              log[2].ok /\ log[2].sym = "LOWER_ID" /\ Text(2) = SubSeq(LoopLabel, 7, 7)

\* C12, amended: the first call emits LABEL covering 'loop, and leaves the
\* quote after it unread; the second call begins at that quote and emits
\* LABEL covering 'x when LABEL is valid, and returns false when it is not
\* (a character literal 'x is not closed).  No call on this input emits
\* LOWER_ID.
C12_LabelThenLabel ==
    input = LoopLabel =>
        /\ \A k \in 1..Len(log) : ~(log[k].ok /\ log[k].sym = "LOWER_ID")
        /\ \A k \in 1..Len(log) :
              (log[k].from = 1 /\ log[k].valid = NoBlock) =>
                  log[k].ok /\ log[k].sym = "LABEL" /\ Text(k) = SubSeq(LoopLabel, 1, 5)
        /\ \A k \in 1..Len(log) :
              (log[k].from = 6 /\ log[k].valid = NoBlock) =>
                  log[k].ok /\ log[k].sym = "LABEL" /\ Text(k) = SubSeq(LoopLabel, 6, 7)
        /\ \A k \in 1..Len(log) :
              (log[k].from = 6 /\ log[k].valid = NoBlock \ { "LABEL" }) => ~log[k].ok

C12_Witness ==
    /\ input = LoopLabel
    /\ Len(log) = 3
    /\ log[1].valid = NoBlock /\ log[1].sym = "LABEL"
    /\ log[2].valid = NoBlock \ { "LABEL" } /\ ~log[2].ok
    /\ log[3].valid = NoBlock /\ log[3].sym = "LABEL" /\ log[3].to = 8


EscapeAtEnd == Str(<<"\"", "a", "\\">>)

OpenChar == Str(<<"'", "A">>)

StrayBackslash == Str(<<"\\", "a">>)

BarePrefixes == { Str(<<"0", "x", "g">>), Str(<<"0", "b", "2">>) }

\* The calls made without START_BLOCK valid on an unterminated character
\* literal, a backslash not followed by a parenthesis, and a 0x or 0b prefix
\* without a digit of its base all return false.
C13_OtherErrorsFail ==
    (input \in { OpenChar, StrayBackslash } \cup BarePrefixes) =>
        \A k \in 1..Len(log) : log[k].valid # TokenType => ~log[k].ok

\* C13: each listed error kind makes the call return false: a string content
\* run whose last backslash is followed by the end of the input emits no
\* STRING_CONTENT, and an unterminated character literal, a backslash not
\* followed by a parenthesis, and a 0x or 0b prefix followed by neither a
\* digit of the base nor an underscore return false.
C13_ErrorsFail ==
    /\ C13_OtherErrorsFail
    /\ input = EscapeAtEnd =>
          \A k \in 1..Len(log) : log[k].from = 2 => ~log[k].ok


\* The INDENTED frames on top of the stack of s, the sentinel not counted.
IndentedOnTop(s) ==
    LET stops == { i \in 0..(s.depth - 1) : i = 0 \/ Slot(s.stack, i).kind # FRAME_INDENTED }
    IN  (s.depth - 1) - Max(stops)

\* C14: every call that emits END_BLOCK removes exactly one frame, and that
\* frame is INDENTED and not the sentinel; and the dedents the auto-close
\* rule queues never exceed the INDENTED frames above the nearest
\* non-INDENTED frame, the sentinel not counted.
C14_EndBlockPopsOne ==
    [][ /\ (last'.ok /\ last'.sym = "END_BLOCK") =>
              /\ sc.depth > 1
              /\ top_frame(sc).kind = FRAME_INDENTED
              /\ sc'.depth = sc.depth - 1
        /\ last'.rule = "closer_newline" =>
              sc'.pending_end_blocks <= IndentedOnTop(sc) ]_vars


\* The INDENTED frames on top of the stack of s, above the sentinel, that
\* were opened right of col.
C15_Count(s, col) ==
    Cardinality({ i \in 1..(s.depth - 1) :
                    \A j \in i..(s.depth - 1) :
                        /\ Slot(s.stack, j).kind = FRAME_INDENTED
                        /\ Slot(s.stack, j).block_col > col })

C15_Settled(s, col) ==
    \/ s.depth = 1
    \/ top_frame(s).kind # FRAME_INDENTED
    \/ top_frame(s).block_col <= col

\* n more calls with END_BLOCK valid emit END_BLOCK, pop a frame each and
\* leave the same state whatever else is valid, and then the queue is empty,
\* the stack is settled for col, and a further call emits no END_BLOCK; r is
\* the result of one such call in the state s at p.
C15_Drained(s, p, n, r) ==
    IF n = 0 THEN ~(r.ok /\ r.sym = "END_BLOCK")
    ELSE /\ r.ok
         /\ r.sym = "END_BLOCK"
         /\ r.pos = p
         /\ r.sc.depth = s.depth - 1
         /\ r.sc = Drained(s, p)

RECURSIVE C15_DrainsIn(_, _, _, _)
C15_DrainsIn(s, p, n, col) ==
    /\ n = 0 => s.pending_end_blocks = 0 /\ C15_Settled(s, col)
    /\ \A v \in { o \in Oracles : "END_BLOCK" \in o } :
           C15_Drained(s, p, n, scan(s, input, p, v))
    /\ n > 0 => C15_DrainsIn(Drained(s, p), p, n - 1, col)

\* The first token of the next line, when the call crosses a newline.
C15_Line == SkipNewlines(input, skip_horizontal_ws(input, pos))

C15_Col == get_column(input, C15_Line)

\* The dedent rule is reached by a call with the bitmap v.
C15_Pre(v) ==
    /\ ~sc.in_string
    /\ ~(sc.pending_end_blocks > 0 /\ "END_BLOCK" \in v)
    /\ top_frame(sc).kind = FRAME_INDENTED
    /\ IsNewline(lookahead(input, skip_horizontal_ws(input, pos)))
    /\ ~eof(input, C15_Line)
    /\ "START_BLOCK" \notin v
    /\ ~IsCloser(lookahead(input, C15_Line))
    /\ C15_Col < top_frame(sc).block_col
    /\ ("NEWLINE" \in v \/ "END_BLOCK" \in v)

C15_Post(v, r) ==
    /\ r.ok
    /\ C15_Count(sc, C15_Col) >= 1
    /\ IF "NEWLINE" \in v
       THEN /\ r.sym = "NEWLINE"
            /\ r.sc.depth = sc.depth
            /\ C15_DrainsIn(r.sc, r.pos, C15_Count(sc, C15_Col), C15_Col)
       ELSE /\ r.sym = "END_BLOCK"
            /\ r.sc.depth = sc.depth - 1
            /\ C15_DrainsIn(r.sc, r.pos, C15_Count(sc, C15_Col) - 1, C15_Col)

\* C15: when the top frame is INDENTED, a newline is crossed, START_BLOCK is
\* not valid, the next line does not begin with a closing delimiter or a
\* comma and begins left of the top frame's block_col, the END_BLOCK tokens
\* produced (the immediate one and those drained while END_BLOCK is valid)
\* are as many as the INDENTED non-sentinel frames on top with block_col
\* greater than the column, and after them the top frame is the sentinel, a
\* non-INDENTED frame or an INDENTED frame with block_col at most the column.
C15_Dedent ==
    \A v \in Oracles : C15_Pre(v) => C15_Post(v, scan(sc, input, pos, v))

\* Two blocks are closed by one line: the first END_BLOCK has been emitted
\* by the dedent rule and the second is queued.
C15_Witness ==
    /\ last.rule = "dedent_end_block"
    /\ sc.pending_end_blocks = 1
    /\ sc.depth = 2


Closers == { "RPAREN", "RBRACKET", "RBRACE", "COMMA" }

\* One or more INDENTED frames lie above the nearest PAREN, BRACKET or
\* INTERPOLATION frame of s.
BlockInDelimiter(s) ==
    /\ top_frame(s).kind = FRAME_INDENTED
    /\ \E i \in 1..(s.depth - 1) : Slot(s.stack, i).kind # FRAME_INDENTED

C16_NoCloser(r) == ~(r.ok /\ r.sym \in Closers)

\* C16: a closing delimiter or a comma is never emitted while INDENTED
\* frames lie above the nearest PAREN, BRACKET or INTERPOLATION frame,
\* whatever the bitmap of the call.
C16_ClosedBeforeCloser ==
    BlockInDelimiter(sc) =>
        \A v \in Oracles : C16_NoCloser(scan(sc, input, pos, v))

\* C16, amended: a call on which NEWLINE or END_BLOCK is valid never emits a
\* closing delimiter or a comma while INDENTED frames lie above the nearest
\* PAREN, BRACKET or INTERPOLATION frame.
C16_ClosedWhenLayoutValid ==
    BlockInDelimiter(sc) =>
        \A v \in { o \in Oracles : "NEWLINE" \in o \/ "END_BLOCK" \in o } :
            C16_NoCloser(scan(sc, input, pos, v))

\* A block opened inside parentheses stands before the closing parenthesis:
\* the call emitted NEWLINE and queued the dedent.
C16_Witness ==
    /\ BlockInDelimiter(sc)
    /\ last.rule = "closer_newline"
    /\ sc.pending_end_blocks = 1
    /\ lookahead(input, pos) = C(")")


Openers == { "LPAREN", "BACKSLASH_LPAREN", "LBRACKET", "LBRACE" }

OpenChars == { C("("), C("["), C("{") }

CloseChars == { C(")"), C("]"), C("}") }

\* The delimiters open after the first k characters of inp.
NestLevel(inp, k) ==
    Cardinality({ i \in 1..k : inp[i] \in OpenChars })
        - Cardinality({ i \in 1..k : inp[i] \in CloseChars })

\* The call j emitted the closer that matches, in the text, the opener the
\* call i emitted.
Matches(i, j) ==
    /\ i < j
    /\ log[i].ok /\ log[i].sym \in Openers
    /\ log[j].ok /\ log[j].sym \in { "RPAREN", "RBRACKET", "RBRACE" }
    /\ NestLevel(input, log[j].to - 1) = NestLevel(input, log[i].to - 1) - 1
    /\ \A b \in log[i].to..(log[j].to - 2) :
           NestLevel(input, b) >= NestLevel(input, log[i].to - 1)

SameStack(a, b) ==
    /\ a.depth = b.depth
    /\ \A i \in 0..(a.depth - 1) : Slot(a.stack, i) = Slot(b.stack, i)

\* C17: for every opener emitted and the closer emitted that matches it in
\* the text of a well-nested input, the stack after the closer is the stack
\* before the opener, in depth and frames.
C17_Balanced ==
    \A i, j \in 1..Len(log) :
        Matches(i, j) => SameStack(log[j].after, log[i].before)

\* From the call i to the call j the frame the call i pushed stays on the
\* stack, and it is the top frame when the call j begins.
OnTopAgain(i, j) ==
    /\ log[i].after.depth = log[i].before.depth + 1
    /\ \A k \in (i + 1)..j : log[k].before.depth >= log[i].after.depth
    /\ log[j].before.depth = log[i].after.depth

\* C17, amended: the stack after the closer is the stack before the opener
\* whenever the frame the opener pushed is the top frame at the call that
\* emits the closer, and was not popped in between; RPAREN pops a PAREN
\* frame or nothing, RBRACKET a BRACKET frame or nothing, and RBRACE an
\* INDENTED frame above the sentinel, whoever pushed it, or nothing.
C17_BalancedWhenOnTop ==
    /\ \A i, j \in 1..Len(log) :
           (Matches(i, j) /\ OnTopAgain(i, j)) =>
               SameStack(log[j].after, log[i].before)
    /\ \A j \in 1..Len(log) :
           (log[j].ok /\ log[j].sym \in { "RPAREN", "RBRACKET", "RBRACE" }) =>
               \/ SameStack(log[j].after, log[j].before)
               \/ /\ log[j].after.depth = log[j].before.depth - 1
                  /\ log[j].before.depth > 1
                  /\ top_frame(log[j].before).kind =
                         (IF log[j].sym = "RPAREN" THEN FRAME_PAREN
                          ELSE IF log[j].sym = "RBRACKET" THEN FRAME_BRACKET
                          ELSE FRAME_INDENTED)

\* A block was opened inside the parentheses and closed before the closing
\* parenthesis, which restored the stack.
C17_Witness ==
    /\ Len(log) = 5
    /\ Matches(1, 5)
    /\ OnTopAgain(1, 5)
    /\ log[2].sym = "START_BLOCK"
    /\ log[3].sym = "NEWLINE"
    /\ log[4].sym = "END_BLOCK"
    /\ log[5].sym = "RPAREN"
    /\ log[5].after.depth = 1


HiThere ==
    Str(<<"\"", "h", "i", " ", "BQ", "n", "BQ", " ", "t", "h", "e", "r", "e", "\"">>)

HiThereStream ==
    << "BEGIN_STR", "STRING_CONTENT", "BEGIN_INTERPOLATION", "LOWER_ID",
       "END_INTERPOLATION", "STRING_CONTENT", "END_STR" >>

Emitted(k, sym) == log[k].ok /\ log[k].sym = sym

\* The calls i+1..k that emitted sym.
CountOf(sym, i, k) == Cardinality({ m \in (i + 1)..k : Emitted(m, sym) })

\* The call j emitted the END_INTERPOLATION that closes the hole the call i
\* opened.
HoleCloses(i, j) ==
    /\ i < j
    /\ Emitted(i, "BEGIN_INTERPOLATION")
    /\ Emitted(j, "END_INTERPOLATION")
    /\ \A k \in (i + 1)..(j - 1) :
           CountOf("END_INTERPOLATION", i, k) <= CountOf("BEGIN_INTERPOLATION", i, k)
    /\ CountOf("END_INTERPOLATION", i, j - 1) = CountOf("BEGIN_INTERPOLATION", i, j - 1)

\* BEGIN_INTERPOLATION is emitted in string mode only, leaves string mode
\* and pushes one INTERPOLATION frame (none when the stack is full);
\* END_INTERPOLATION enters string mode.
C18_Transitions ==
    \A k \in 1..Len(log) :
        /\ Emitted(k, "BEGIN_INTERPOLATION") =>
              /\ log[k].before.in_string
              /\ ~log[k].after.in_string
              /\ \/ /\ log[k].after.depth = log[k].before.depth + 1
                    /\ top_frame(log[k].after) = [ kind |-> FRAME_INTERPOLATION, block_col |-> 0 ]
                    /\ SameStack([ log[k].after EXCEPT !.depth = log[k].before.depth ],
                                 log[k].before)
                 \/ /\ log[k].before.depth = MAX_DEPTH
                    /\ SameStack(log[k].after, log[k].before)
        /\ Emitted(k, "END_INTERPOLATION") => log[k].after.in_string

\* On the example the first calls emit the tokens of HiThereStream, one
\* each, when START_BLOCK is valid on no call.
C18_Example ==
    (input = HiThere /\ \A k \in 1..Len(log) : "START_BLOCK" \notin log[k].valid) =>
        \A k \in 1..Len(log) :
            k <= Len(HiThereStream) => Emitted(k, HiThereStream[k])

\* C18: BEGIN_INTERPOLATION is emitted only in string mode, clears in_string
\* and pushes one INTERPOLATION frame; the END_INTERPOLATION that closes the
\* hole sets in_string and leaves the stack as it was before the
\* BEGIN_INTERPOLATION, whatever was emitted inside the hole; and the
\* example (quote, hi, hole n, there, quote) yields BEGIN_STR,
\* STRING_CONTENT, BEGIN_INTERPOLATION, LOWER_ID, END_INTERPOLATION,
\* STRING_CONTENT, END_STR.
C18_Holes ==
    /\ C18_Transitions
    /\ C18_Example
    /\ \A i, j \in 1..Len(log) :
           HoleCloses(i, j) => SameStack(log[j].after, log[i].before)

\* C18, amended: as C18, but the END_INTERPOLATION that closes the hole
\* restores the stack only when the INTERPOLATION frame is the top frame at
\* that call; otherwise it pops nothing.
C18_HolesOnTop ==
    /\ C18_Transitions
    /\ C18_Example
    /\ \A i, j \in 1..Len(log) :
           HoleCloses(i, j) =>
               IF OnTopAgain(i, j)
               THEN SameStack(log[j].after, log[i].before)
               ELSE SameStack(log[j].after, log[j].before)
                    \/ top_frame(log[j].before).kind = FRAME_INTERPOLATION

\* The example has been scanned to its end; and a string nested in a hole
\* has been scanned and the hole closed with the stack restored.
C18_Witness ==
    \/ /\ input = HiThere
       /\ Len(log) = Len(HiThereStream)
       /\ Kinds(log) = HiThereStream
       /\ HoleCloses(3, 5) /\ OnTopAgain(3, 5)
    \/ /\ input # HiThere
       /\ Len(log) >= 6
       /\ HoleCloses(2, 6) /\ OnTopAgain(2, 6)
       /\ Emitted(3, "BEGIN_STR") /\ Emitted(5, "END_STR")


\* The call k was made with START_BLOCK valid, outside string mode and with
\* no dedent queued, and the first character after the white space was #.
BlockWantedAtComment(k) ==
    /\ "START_BLOCK" \in log[k].valid
    /\ ~log[k].before.in_string
    /\ log[k].before.pending_end_blocks = 0
    /\ lookahead(input, skip_all_ws(input, log[k].from)) = C("#")

\* C19: a call with START_BLOCK valid whose first character after the white
\* space is # leaves the scanner state as it was, emits no layout token and
\* emits the comment, whatever the column of the comment and whether or not
\* NEWLINE or END_BLOCK is valid.
C19_CommentDefersBlock ==
    \A k \in 1..Len(log) :
        BlockWantedAtComment(k) =>
            /\ log[k].after = log[k].before
            /\ Emitted(k, "LINE_COMMENT") \/ Emitted(k, "BLOCK_COMMENT")

\* The same for a comment that stands on the line the call begins on.
C19_DefersOnSameLine ==
    \A k \in 1..Len(log) :
        (/\ BlockWantedAtComment(k)
         /\ lookahead(input, skip_horizontal_ws(input, log[k].from)) = C("#")) =>
            /\ log[k].after = log[k].before
            /\ Emitted(k, "LINE_COMMENT") \/ Emitted(k, "BLOCK_COMMENT")


PlusB == Str(<<"a", "\n", " ", " ", " ", " ", "+", " ", "b">>)

PlusBStream == << "LOWER_ID", "PLUS", "LOWER_ID" >>

\* A call with the bitmap v reaches the indentation check at a line that
\* begins right of the top frame's block_col.
C20_Pre(v) ==
    /\ ~sc.in_string
    /\ ~(sc.pending_end_blocks > 0 /\ "END_BLOCK" \in v)
    /\ top_frame(sc).kind = FRAME_INDENTED
    /\ IsNewline(lookahead(input, skip_horizontal_ws(input, pos)))
    /\ ~eof(input, C15_Line)
    /\ "START_BLOCK" \notin v
    /\ ~IsCloser(lookahead(input, C15_Line))
    /\ C15_Col > top_frame(sc).block_col

\* r is no layout token, and it is what the token scanner returns for the
\* first token of the line from the state as it was before the call.
C20_Post(v, r) ==
    /\ ~(r.ok /\ r.sym \in LayoutTokens)
    /\ r = ScanToken(sc, input, pos, C15_Line, v)
    /\ r.sc.pending_end_blocks = sc.pending_end_blocks
    /\ r.sc.eof_newline_emitted = sc.eof_newline_emitted

\* C20: when the top frame is INDENTED, a newline is crossed, the input is
\* not at its end, START_BLOCK is not valid, and the next line begins with
\* no closing delimiter or comma and right of the top frame's block_col, the
\* call emits no layout token and changes no scanner state before it scans
\* the token; on the input a, newline, four spaces, + b the tokens are
\* LOWER_ID, PLUS, LOWER_ID, with no NEWLINE between a and +, NEWLINE valid.
C20_Continuation ==
    /\ \A v \in Oracles : C20_Pre(v) => C20_Post(v, scan(sc, input, pos, v))
    /\ (input = PlusB /\ \A k \in 1..Len(log) : "START_BLOCK" \notin log[k].valid) =>
           \A k \in 1..Len(log) : k <= Len(PlusBStream) => Emitted(k, PlusBStream[k])

\* The call after LOWER_ID (a) crossed the newline with NEWLINE valid and
\* emitted PLUS.
C20_Witness ==
    /\ input = PlusB
    /\ Len(log) = 2
    /\ Emitted(1, "LOWER_ID")
    /\ "NEWLINE" \in log[2].valid
    /\ log[2].from = 2
    /\ Emitted(2, "PLUS")
    /\ log[2].after = log[2].before


ParenLines == Str(<<"(", "a", ",", "\n", " ", "b", ")">>)

\* The top frame is PAREN, BRACKET or INTERPOLATION, the scanner is not in
\* string mode, and a call with the bitmap v does not drain a queued dedent.
C21_Pre(v) ==
    /\ in_non_indented(sc)
    /\ ~sc.in_string
    /\ ~(sc.pending_end_blocks > 0 /\ "END_BLOCK" \in v)

C21_AtNewline == IsNewline(lookahead(input, skip_horizontal_ws(input, pos)))

C21_Rest == skip_all_ws(input, pos)

\* NEWLINE is emitted at a newline when it is valid, the state unchanged;
\* otherwise the white space is skipped, newlines included, and the call
\* emits START_BLOCK when that is valid and no comment follows, or what the
\* token scanner returns at the first character after the white space; no
\* END_BLOCK is emitted.
C21_Rules(v, r) ==
    /\ ~(r.ok /\ r.sym = "END_BLOCK")
    /\ IF "NEWLINE" \in v /\ C21_AtNewline
       THEN /\ r.ok /\ r.sym = "NEWLINE"
            /\ r.sc = sc
            /\ r.pos = SkipNewlines(input, skip_horizontal_ws(input, pos))
       ELSE IF "START_BLOCK" \in v /\ lookahead(input, C21_Rest) # C("#")
       THEN r.ok /\ r.sym = "START_BLOCK" /\ r.pos = C21_Rest
       ELSE r = ScanToken(sc, input, pos, C21_Rest, v)

\* NEWLINE only at a newline, with NEWLINE valid.
C21_OnlyAtNewline(v, r) ==
    (r.ok /\ r.sym = "NEWLINE") => ("NEWLINE" \in v /\ C21_AtNewline)

\* NEWLINE only at a newline or at the end of the input, with NEWLINE valid.
C21_OnlyAtNewlineOrEnd(v, r) ==
    (r.ok /\ r.sym = "NEWLINE") =>
        /\ "NEWLINE" \in v
        /\ \/ C21_AtNewline
           \/ eof(input, C21_Rest) /\ ~sc.eof_newline_emitted /\ r.sc.eof_newline_emitted

\* On the example a call with the content tokens valid, and no layout
\* token, inside the parenthesis emits the token at the position: a, the
\* comma, b after the newline and the space, and the closing parenthesis.
C21_Example ==
    (input = ParenLines /\ top_frame(sc).kind = FRAME_PAREN /\ ~sc.in_string) =>
        LET r == scan(sc, input, pos, ContentTokens)
        IN  /\ pos = 2 => r.ok /\ r.sym = "LOWER_ID" /\ r.pos = 3
            /\ pos = 3 => r.ok /\ r.sym = "COMMA" /\ r.pos = 4
            /\ pos = 4 => r.ok /\ r.sym = "LOWER_ID" /\ r.pos = 7
            /\ pos = 7 => r.ok /\ r.sym = "RPAREN" /\ r.pos = 8 /\ r.sc.depth = sc.depth - 1

\* C21: with a PAREN, BRACKET or INTERPOLATION frame on top and in_string
\* false, NEWLINE is emitted only if NEWLINE is valid and a newline follows
\* the skipped spaces and tabs; otherwise all white space is skipped, no
\* indentation comparison is made, and neither NEWLINE nor END_BLOCK is
\* emitted; the example (a, newline, b in parentheses) yields LPAREN,
\* LOWER_ID, COMMA, LOWER_ID, RPAREN without NEWLINE and START_BLOCK valid.
C21_InsideDelimiters ==
    /\ \A v \in Oracles :
           C21_Pre(v) => C21_OnlyAtNewline(v, scan(sc, input, pos, v))
    /\ \A v \in Oracles : C21_Pre(v) => C21_Rules(v, scan(sc, input, pos, v))
    /\ C21_Example

\* C21, amended: the same, but NEWLINE is also emitted, once, when the white
\* space skipped ends at the end of the input.
C21_InsideDelimitersOrEnd ==
    /\ \A v \in Oracles :
           C21_Pre(v) => C21_OnlyAtNewlineOrEnd(v, scan(sc, input, pos, v))
    /\ \A v \in Oracles : C21_Pre(v) => C21_Rules(v, scan(sc, input, pos, v))
    /\ C21_Example

\* The call after the comma of the example skipped the newline and the
\* space and emitted b, inside the parenthesis.
C21_Witness ==
    /\ input = ParenLines
    /\ top_frame(sc).kind = FRAME_PAREN
    /\ pos = 7
    /\ last.sym = "LOWER_ID"
    /\ calls = 4


(***************************************************************************)
(* Single tokens.  The inputs are labels, character literals, identifiers  *)
(* of up to 64 characters, block comments and strings with escapes; the    *)
(* parser offers every                                                     *)
(* token kind, or every kind but one of LABEL, CHAR_LITERAL and            *)
(* BLOCK_COMMENT, or the content tokens alone.  The calls are logged as in *)
(* the example runs.                                                       *)
(***************************************************************************)
LongBody == Rep(C("a"), WORD_MAX + 1)

LongUpper == Rep(C("A"), WORD_MAX + 1)

LongLabel == <<C("'")>> \o LongBody

NestedComment ==
    Str(<<"#", "|", " ", "o", "u", "t", "e", "r", " ", "#", "|", " ", "i", "n",
          "n", "e", "r", " ", "|", "#", " ", "s", "t", "i", "l", "l", " ", "o",
          "u", "t", "e", "r", " ", "|", "#">>)

LexInputs ==
    { Str(w) : w \in {
        <<"'", "a", "'">>,
        <<"'", "a", "b", "'">>,
        <<"'", "a", " ", "'">>,
        <<"'", "a", "_", "1", "'", "b", "'">>,
        <<"'", "'">>,
        <<"'", "'", "'">>,
        <<"'", "\\", "n", "'">>,
        <<"'", "\\", "'", "'">>,
        <<"'", "\\", "n">>,
        <<"'", "\\">>,
        <<"'", "A", "'">>,
        <<"'", "A", "B", "'">>,
        <<"'", "1">>,
        <<"'", " ", "'", "\n", "'", "z">>,
        <<"#", "|", "|", "#", "x">>,
        <<"#", "|", "#", "|", "|", "#", "x", "|", "#", "y">>,
        <<"#", "|", "#", "|", "|", "#">>,
        <<"#", "|", "#", "#", "|", "|", "|", "#", "|", "#", "|", "#">>,
        <<"#", "|", "a">>,
        <<"a", "#", "|", "|", "#", "|", "#">>,
        <<"\"", "\\", "\"", "a", "\"">>,
        <<"\"", " ", "\\", "\n", " ", "b", "BQ", "x", "BQ", " ", "\"">>,
        <<"\"", "\\", "\\", "\"", "c">>,
        <<"\"", "\n", "\\", "BQ", "\\">> } }
      \cup { LongBody, LongUpper, LongLabel, NestedComment,
             Rep(C("a"), WORD_MAX) \o Str(<<" ", "b">>),
             Rep(C("_"), WORD_MAX) \o Str(<<"_", "a">>) }

LexOracles ==
    { TokenType, TokenType \ { "LABEL" }, TokenType \ { "CHAR_LITERAL" },
      TokenType \ { "BLOCK_COMMENT" }, ContentTokens }

MaxLexCalls == 5

InitLex ==
    /\ input \in LexInputs
    /\ InitRun
    /\ NoRunB

ScanLex ==
    /\ calls < MaxLexCalls
    /\ ~AtEnd(last)
    /\ calls' = calls + 1
    /\ \E v \in LexOracles : CallEx(v)
    /\ UNCHANGED runB

NextLex == ScanLex

SpecLex == InitLex /\ [][NextLex]_vars

\* The characters of an identifier body, [A-Za-z0-9_].
IdChars == { c \in 1..127 : is_id_char(c) }

\* The lexer stands at a single quote, outside a string.
AtQuote == ~sc.in_string /\ lookahead(input, pos) = C("'")

\* The bitmaps a call at a quote is tried with.
QuoteBitmaps ==
    { l \cup c : l \in SUBSET { "NEWLINE", "END_BLOCK" },
                 c \in { { "LABEL" }, { "CHAR_LITERAL" }, { "LABEL", "CHAR_LITERAL" },
                         ContentTokens, ContentTokens \ { "LABEL" },
                         ContentTokens \ { "CHAR_LITERAL" } } }

\* The call came to the rules for tokens: no layout token was emitted.
Tokenized(r) == r.sym \notin LayoutTokens

(***************************************************************************)
(* C22.  After a single quote and a lowercase letter, with LABEL valid,    *)
(* the token is CHAR_LITERAL exactly if the identifier body is one         *)
(* character long, a quote follows it at once and CHAR_LITERAL is valid,   *)
(* and then the closing quote belongs to the token; in every other case    *)
(* the token is LABEL and ends after the identifier body, the maximal run  *)
(* of [A-Za-z0-9_], with a quote after it left unconsumed.                 *)
(***************************************************************************)
C22_Body == SkipWhile(IdChars, input, pos + 1)

C22_Pre(v, r) ==
    /\ AtQuote
    /\ is_lower(lookahead(input, pos + 1))
    /\ "LABEL" \in v
    /\ Tokenized(r)

C22_IsChar(v) ==
    /\ C22_Body = pos + 2
    /\ lookahead(input, C22_Body) = C("'")
    /\ "CHAR_LITERAL" \in v

C22_Rule(v, r) ==
    /\ r.ok
    /\ IF C22_IsChar(v)
       THEN r.sym = "CHAR_LITERAL" /\ r.pos = C22_Body + 1
       ELSE r.sym = "LABEL" /\ r.pos = C22_Body

C22_Held(v, r) == C22_Pre(v, r) => C22_Rule(v, r)

C22_LabelOrChar ==
    \A v \in QuoteBitmaps : C22_Held(v, scan(sc, input, pos, v))

\* The rule holds of every label whose body fits the buffer of 63 bytes.
C22_WithinBuffer ==
    \A v \in QuoteBitmaps :
        C22_Body - (pos + 1) <= WORD_MAX => C22_Held(v, scan(sc, input, pos, v))

(***************************************************************************)
(* C23.  At a single quote that does not begin a label (no lowercase       *)
(* letter follows, or LABEL is not valid), the call emits CHAR_LITERAL     *)
(* only when CHAR_LITERAL is valid and exactly one escape (a backslash and *)
(* one more character) or exactly one raw character that is neither a      *)
(* quote nor the end of the input lies between the quotes; the token then  *)
(* ends after the closing quote and the state is unchanged.  In every      *)
(* other case, the empty literal and a missing closing quote included, the *)
(* call returns false.                                                     *)
(***************************************************************************)
C23_Pre(v, r) ==
    /\ AtQuote
    /\ ~(is_lower(lookahead(input, pos + 1)) /\ "LABEL" \in v)
    /\ Tokenized(r)

C23_Escape ==
    /\ lookahead(input, pos + 1) = C("\\")
    /\ pos + 2 <= Len(input)
    /\ lookahead(input, pos + 3) = C("'")

C23_Raw ==
    /\ lookahead(input, pos + 1) \notin { C("'"), C("\\"), 0 }
    /\ lookahead(input, pos + 2) = C("'")

C23_End == IF C23_Escape THEN pos + 4 ELSE pos + 3

C23_Rule(v, r) ==
    IF "CHAR_LITERAL" \in v /\ (C23_Escape \/ C23_Raw)
    THEN r.ok /\ r.sym = "CHAR_LITERAL" /\ r.pos = C23_End /\ r.sc = sc
    ELSE ~r.ok /\ r.pos = pos /\ r.sc = sc

C23_Held(v, r) == C23_Pre(v, r) => C23_Rule(v, r)

C23_CharLiteral ==
    \A v \in QuoteBitmaps : C23_Held(v, scan(sc, input, pos, v))

\* The rule holds wherever the quote is not followed at once by a quote.
C23_NonEmptyLiteral ==
    \A v \in QuoteBitmaps :
        lookahead(input, pos + 1) # C("'") => C23_Held(v, scan(sc, input, pos, v))

\* The two quotes of an empty literal were scanned as one CHAR_LITERAL.
C23_EmptyAccepted ==
    /\ Len(input) >= 2 /\ input[1] = C("'") /\ input[2] = C("'")
    /\ calls = 1
    /\ last.ok /\ last.sym = "CHAR_LITERAL"
    /\ pos = 3

(***************************************************************************)
(* C24.  An identifier that starts with a letter and is longer than 63     *)
(* characters is emitted as one LOWER_ID or UPPER_ID that covers the whole *)
(* maximal run of [A-Za-z0-9_]: the limit of 63 applies to the buffer the  *)
(* keywords are compared with, not to the extent of the token.             *)
(***************************************************************************)
C24_Run == SkipWhile(IdChars, input, pos)

C24_Pre(r) ==
    /\ ~sc.in_string
    /\ is_lower(lookahead(input, pos)) \/ is_upper(lookahead(input, pos))
    /\ C24_Run - pos > WORD_MAX
    /\ Tokenized(r)

C24_Kind == IF is_lower(lookahead(input, pos)) THEN "LOWER_ID" ELSE "UPPER_ID"

C24_Whole(r) == C24_Pre(r) => r.ok /\ r.sym = C24_Kind /\ r.pos = C24_Run

C24_WholeRun ==
    \A v \in LexOracles : C24_Whole(scan(sc, input, pos, v))

\* What the calls return instead: a token of the first 63 characters.
C24_Cut(r) == C24_Pre(r) => r.ok /\ r.sym = C24_Kind /\ r.pos = pos + WORD_MAX

C24_CutAtBuffer ==
    \A v \in LexOracles : C24_Cut(scan(sc, input, pos, v))

\* The 64 letters were scanned as two identifiers, of 63 letters and of one.
C24_TwoTokens ==
    /\ input = LongBody
    /\ calls = 2
    /\ log[1].sym = "LOWER_ID" /\ log[1].from = 1 /\ log[1].to = WORD_MAX + 1
    /\ log[2].sym = "LOWER_ID" /\ log[2].from = WORD_MAX + 1 /\ log[2].to = WORD_MAX + 2

(***************************************************************************)
(* C25.  Block comments nest.  At "#|" with BLOCK_COMMENT valid the call   *)
(* emits one BLOCK_COMMENT; a counter that starts at 1 goes up by one on   *)
(* each "#|" and down by one on each "|#" (read from left to right, no     *)
(* character counted twice), and the token ends right after the "|#" that  *)
(* brings the counter to zero, or at the end of the input if none does.    *)
(* The state is unchanged.  The input                                      *)
(*   #| outer #| inner |# still outer |#                                   *)
(* is one BLOCK_COMMENT that covers it all.                                *)
(***************************************************************************)
C25_Pair(i) ==
    \/ lookahead(input, i) = C("#") /\ lookahead(input, i + 1) = C("|")
    \/ lookahead(input, i) = C("|") /\ lookahead(input, i + 1) = C("#")

\* The pair at i counts, in the comment that begins at p: the character at
\* i is not the second character of a pair that counts.
RECURSIVE C25_Counts(_, _)
C25_Counts(p, i) ==
    IF i = p THEN TRUE
    ELSE C25_Pair(i) /\ ~C25_Counts(p, i - 1)

\* The counter when the lexer stands at e.
C25_Counter(p, e) ==
    Cardinality({ i \in p..(e - 2) : C25_Counts(p, i) /\ input[i] = C("#") })
    - Cardinality({ i \in p..(e - 2) : C25_Counts(p, i) /\ input[i] = C("|") })

C25_Closed(p) == { e \in (p + 2)..(Len(input) + 1) : C25_Counter(p, e) = 0 }

C25_End(p) ==
    IF C25_Closed(p) = {} THEN Len(input) + 1
    ELSE CHOOSE e \in C25_Closed(p) : \A f \in C25_Closed(p) : e <= f

C25_Pre(v, r) ==
    /\ ~sc.in_string
    /\ lookahead(input, pos) = C("#") /\ lookahead(input, pos + 1) = C("|")
    /\ "BLOCK_COMMENT" \in v
    /\ Tokenized(r)

C25_Rule(r) ==
    /\ r.ok /\ r.sym = "BLOCK_COMMENT"
    /\ r.pos = C25_End(pos)
    /\ r.sc = sc

C25_Held(v, r) == C25_Pre(v, r) => C25_Rule(r)

C25_Example ==
    input = NestedComment /\ calls > 0 /\ log[calls].ok
        => /\ log[calls].sym \in { "BLOCK_COMMENT", "NEWLINE" }
           /\ log[calls].sym = "BLOCK_COMMENT"
                => log[calls].from = 1 /\ log[calls].to = Len(input) + 1

C25_Nests ==
    /\ \A v \in LexOracles : C25_Held(v, scan(sc, input, pos, v))
    /\ C25_Example

\* The example was scanned as one BLOCK_COMMENT up to the end of the input.
C25_Witness ==
    /\ input = NestedComment
    /\ calls = 1
    /\ last.ok /\ last.sym = "BLOCK_COMMENT"
    /\ pos = Len(input) + 1

(***************************************************************************)
(* C26.  A call of scan that returns false leaves the whole scanner state  *)
(* unchanged: depth, the frames, pending_end_blocks, in_string and         *)
(* eof_newline_emitted are after the call what they were before it, at     *)
(* every reachable state and position and for every bitmap.                *)
(***************************************************************************)
C26_Bitmaps == Oracles \cup LexOracles \cup ExOracles

C26_Kept(r) == ~r.ok => r.sc = sc

C26_FalseKeepsState ==
    \A v \in C26_Bitmaps : C26_Kept(scan(sc, input, pos, v))

\* A call returned false while dedents were queued, and they still are.
C26_Witness ==
    /\ calls > 1
    /\ ~last.ok
    /\ sc.pending_end_blocks > 0
    /\ sc.depth > 1

(***************************************************************************)
(* C27.  The scanner does not emit tokens for ever without consuming       *)
(* input: whatever the bitmaps, a run of consecutive successful calls that *)
(* consume no character is no longer than pending_end_blocks + depth + 1,  *)
(* taken in the state before the first of them.                            *)
(***************************************************************************)
\* Call k succeeded and left the lexer where it was.
C27_Idle(k) == log[k].ok /\ log[k].to = log[k].from

C27_Run(i, j) == i <= j /\ \A k \in i..j : C27_Idle(k)

C27_Bound(s) == s.pending_end_blocks + s.depth + 1

C27_Bounded ==
    \A i, j \in 1..Len(log) :
        C27_Run(i, j) => j - i + 1 <= C27_Bound(log[i].before)

(***************************************************************************)
(* C27, amended.  At the end of the input, in calls that do not offer      *)
(* START_BLOCK, the bound holds: every successful call lowers              *)
(* pending_end_blocks + depth, or sets eof_newline_emitted, so that after  *)
(* at most pending_end_blocks + depth calls the next one returns false.    *)
(***************************************************************************)
C27_AtEnd(i, j) ==
    /\ C27_Run(i, j)
    /\ log[i].from > Len(input)
    /\ \A k \in i..j : "START_BLOCK" \notin log[k].valid

C27_Rank(s) ==
    s.pending_end_blocks + s.depth + (IF s.eof_newline_emitted THEN 0 ELSE 1)

C27_Lowers(r) == r.ok => r.pos = pos /\ C27_Rank(r.sc) < C27_Rank(sc)

C27_Unasked == { v \in C26_Bitmaps : "START_BLOCK" \notin v }

C27_BoundedAtEnd ==
    /\ \A i, j \in 1..Len(log) :
           C27_AtEnd(i, j) => j - i + 1 <= C27_Bound(log[i].before)
    /\ eof(input, pos)
           => \A v \in C27_Unasked : C27_Lowers(scan(sc, input, pos, v))

\* At the end of the input three calls in a row succeeded without
\* START_BLOCK on offer, with blocks open, and the call after them returned
\* false.
C27_Witness ==
    /\ calls >= 4
    /\ ~last.ok
    /\ C27_AtEnd(calls - 3, calls - 1)
    /\ log[calls - 3].before.depth > 1
    /\ log[calls].from > Len(input)
    /\ "START_BLOCK" \notin log[calls].valid

(***************************************************************************)
(* C28.  While in_string is set, a successful call emits STRING_CONTENT,   *)
(* END_STR or BEGIN_INTERPOLATION, or END_BLOCK when a dedent is queued    *)
(* and END_BLOCK is valid; never NEWLINE or START_BLOCK.  No white space   *)
(* is skipped: END_STR and BEGIN_INTERPOLATION are the one character at    *)
(* the lexer's position, and STRING_CONTENT begins there.  STRING_CONTENT  *)
(* is never empty and ends at the first quote or back quote that no        *)
(* backslash escapes, or at the end of the input.                          *)
(***************************************************************************)
\* The character at i is escaped in the text that begins at p: a backslash
\* that is not itself escaped stands before it.
RECURSIVE C28_Escaped(_, _)
C28_Escaped(p, i) ==
    IF i <= p THEN FALSE
    ELSE input[i - 1] = C("\\") /\ ~C28_Escaped(p, i - 1)

C28_Stops(p) ==
    { e \in p..(Len(input) + 1) :
        \/ e = Len(input) + 1
        \/ input[e] \in { C("\""), C("BQ") } /\ ~C28_Escaped(p, e) }

C28_RunEnd(p) == CHOOSE e \in C28_Stops(p) : \A f \in C28_Stops(p) : e <= f

C28_Bitmaps ==
    C26_Bitmaps \cup { TokenType \ { "STRING_CONTENT" }, { "STRING_CONTENT" },
                       { "END_STR", "BEGIN_INTERPOLATION", "NEWLINE", "START_BLOCK" } }

C28_Draining(v) == sc.pending_end_blocks > 0 /\ "END_BLOCK" \in v

C28_Content(r) ==
    /\ lookahead(input, pos) \notin { C("\""), C("BQ"), 0 }
    /\ r.pos > pos
    /\ r.pos = C28_RunEnd(pos)
    /\ r.sc = sc

C28_Delimiter(r) ==
    /\ lookahead(input, pos) = (IF r.sym = "END_STR" THEN C("\"") ELSE C("BQ"))
    /\ r.pos = pos + 1
    /\ ~r.sc.in_string

C28_Rule(v, r) ==
    IF C28_Draining(v)
    THEN r.sym = "END_BLOCK" /\ r.pos = pos
    ELSE /\ r.sym \in { "STRING_CONTENT", "END_STR", "BEGIN_INTERPOLATION" }
         /\ r.sym = "STRING_CONTENT" => C28_Content(r)
         /\ r.sym # "STRING_CONTENT" => C28_Delimiter(r)

C28_Held(v, r) == sc.in_string /\ r.ok => C28_Rule(v, r)

C28_InString ==
    \A v \in C28_Bitmaps : C28_Held(v, scan(sc, input, pos, v))

\* In "\"a" the content \"a was emitted as one STRING_CONTENT, up to the
\* quote that closes the string.
C28_Witness ==
    /\ input = Str(<<"\"", "\\", "\"", "a", "\"">>)
    /\ calls = 2
    /\ log[2].before.in_string
    /\ last.ok /\ last.sym = "STRING_CONTENT"
    /\ log[2].from = 2 /\ pos = 5
    /\ sc.in_string
=============================================================================
